---- MODULE Spec2Model ----
(***************************************************************************)
(* Research agent: the orchestration loop (agent.ts runResearchAgent), the *)
(* tool gateway (executeTool / handleEvaluation), the memory store         *)
(* (memory.ts saveSession), the export collaborator (sheets exportToSheets)*)
(* and the Telegram front end (telegram.ts handleResearch, /stop).         *)
(*                                                                         *)
(* One action is one run of JavaScript between two suspension points       *)
(* (await): Node runs a handler to its next await without interleaving,    *)
(* so everything between two awaits is a single atomic step.               *)
(***************************************************************************)
EXTENDS Integers, Sequences, FiniteSets, TLC

(***************************************************************************)
(* Program constants                                                       *)
(***************************************************************************)
MAX_ITERATIONS == 10
COMPRESS_EVERY == 3
MAX_ATTEMPTS == 5
BACKOFF_STEP == 15
BACKOFF_CAP == 60
MAX_SESSIONS == 50
MAX_NOTES == 10
MIN_MESSAGES == 6
MIN_MIDDLE == 4
KEEP_LAST_EXCHANGES == 2
CONCLUSION_CHARS == 500

(***************************************************************************)
(* Bounds of the model                                                     *)
(***************************************************************************)
\* run instances (invocations of main() / handleResearch) of one process
MaxRuns == 2
\* chats talking to the bot
NumChats == 2
\* tool invocations the engine requests in one run
MaxToolCalls == 2
\* tool invocations the engine requests in one run of the bot process
MaxBotToolCalls == 1
\* tool invocations the engine requests in one long run
MaxLongToolCalls == 8
\* saveSession calls against one memory file
MaxSaves == 52
\* of these, the first ones save sessions of any content
MaxVariedSaves == 4
\* saves by other processes between the runs of a family of processes
MaxRecallSaves == 7
\* how many of the first of them vary in task and conclusion
MaxRecallVaried == 2
\* tool invocations of one process of the family
MaxRecallToolCalls == 1
\* responses of one run whose usage varies
MaxVariedUsages == 3
\* tool invocations of the run that uses every tool
MaxGatewayCalls == 2
\* tool invocations per run of the bot process that serves requests in turn
MaxSerialToolCalls == 1
\* saveSession calls of the process family that annotates one service
MaxNoteSaves == 5
\* tool invocations of the run whose conversation is followed turn by turn
MaxTurnsToolCalls == 9
\* tool invocations per run of the bot process whose runs overlap
MaxOverlapToolCalls == 1

Runs == 1..MaxRuns
Chats == 1..NumChats
\* chat[r] of a run started from the command line (main.ts main)
NoChat == 0

Min(a, b) == IF a < b THEN a ELSE b

\* the JavaScript value undefined, for optional string fields
Undefined == "undefined"

(***************************************************************************)
(* Inputs: what the reasoning engine may ask for                           *)
(***************************************************************************)
HardOk == [defined |-> TRUE,
           items |-> <<[criterion |-> "coverage", passed |-> TRUE, evidence |-> "direct routes"]>>]
HardFail == [defined |-> TRUE,
             items |-> <<[criterion |-> "coverage", passed |-> FALSE, evidence |-> "no routes"]>>]
\* input.hard_criteria absent: hardResults is undefined
HardMissing == [defined |-> FALSE, items |-> <<>>]

EvalPass == [name |-> "evaluate", cname |-> "Acme SMS", url |-> "acme.example",
             hard |-> HardOk, soft |-> <<>>, verdict |-> "pass",
             rejection |-> Undefined, notes |-> Undefined]
EvalFail == [name |-> "evaluate", cname |-> "Beta", url |-> Undefined,
             hard |-> HardFail, soft |-> <<>>, verdict |-> "fail",
             rejection |-> "no routes", notes |-> Undefined]
EvalNoHard == [name |-> "evaluate", cname |-> "Beta", url |-> Undefined,
               hard |-> HardMissing, soft |-> <<>>, verdict |-> "pass",
               rejection |-> Undefined, notes |-> Undefined]
EvalNoVerdict == [name |-> "evaluate", cname |-> "Beta", url |-> Undefined,
                  hard |-> HardOk, soft |-> <<>>, verdict |-> Undefined,
                  rejection |-> Undefined, notes |-> Undefined]

\* the service of EvalPass evaluated again under another spelling of its name
EvalAgain == [name |-> "evaluate", cname |-> " ACME sms ", url |-> Undefined,
              hard |-> HardFail, soft |-> <<>>, verdict |-> "fail",
              rejection |-> "no routes", notes |-> Undefined]

\* an evaluation that quotes a long passage as evidence
HardLong == [defined |-> TRUE,
             items |-> <<[criterion |-> "coverage", passed |-> FALSE, evidence |-> "audit excerpt"]>>]
EvalLong == [name |-> "evaluate", cname |-> "Gamma", url |-> Undefined,
             hard |-> HardLong, soft |-> <<>>, verdict |-> "fail",
             rejection |-> "resells routes", notes |-> Undefined]

SearchCall == [name |-> "google_search", query |-> "sms argentina"]
DiscoverCall == [name |-> "discover", query |-> "sms argentina"]
ExtractCall == [name |-> "extract_page", url |-> "acme.example"]
ReadCall == [name |-> "read_page", url |-> "acme.example"]
\* named in the header comment of agent.ts, absent from the switch
UnknownCall == [name |-> "recall_memory"]

(***************************************************************************)
(* Memory store (memory.ts)                                                *)
(***************************************************************************)
\* MemoryStore after loadMemory found no file: { sessions: [], knownServices: {} }
EmptyStore == [sessions |-> <<>>, knownServices |-> <<>>]

\* What MEMORY_PATH names: a document saveMemory wrote ("valid", its content is
\* the variable store), nothing ("missing"), a file that is not JSON
\* ("corrupt"), a file the process may write but not read ("unreadable"), or
\* a directory ("directory": existsSync is true, readFileSync and
\* writeFileSync both raise EISDIR).
FileStates == {"valid", "missing", "corrupt", "unreadable", "directory"}

\* loadMemory: the parsed document, or the empty store when the file is
\* absent or when readFileSync or JSON.parse raised inside the try block
LoadMemory(file, st) == IF file = "valid" THEN st ELSE EmptyStore

\* saveMemory: writeFileSync is not guarded
WriteThrows(file) == file = "directory"

NormalizeNameVerbatim(n) == n

\* candidate.name.toLowerCase().trim()
NormalizeName(n) ==
  CASE n = "Acme SMS" -> "acme sms"
    [] n = " ACME sms " -> "acme sms"
    [] n = "Beta" -> "beta"
    [] n = "Gamma" -> "gamma"
    [] OTHER -> n

\* m[k] = v on a JavaScript object
Put(m, k, v) == [x \in (DOMAIN m) \cup {k} |-> IF x = k THEN v ELSE m[x]]

LastNKeepsOldest(s, n) == IF Len(s) <= n THEN s ELSE SubSeq(s, 1, n)

\* arr.slice(-n)
LastN(s, n) == IF Len(s) <= n THEN s ELSE SubSeq(s, Len(s) - n + 1, Len(s))

\* svc.facts[hr.criterion] = `${hr.passed ? "YES" : "NO"} — ${hr.evidence}`
RECURSIVE HardFacts(_, _)
HardFacts(facts, items) ==
  IF items = <<>> THEN facts
  ELSE HardFacts(Put(facts, Head(items).criterion,
                     [mark |-> IF Head(items).passed THEN "YES" ELSE "NO",
                      text |-> Head(items).evidence]),
                 Tail(items))

\* svc.facts[`soft:${sr.criterion}`] = `${sr.score}/10 — ${sr.reasoning}`
RECURSIVE SoftFacts(_, _)
SoftFacts(facts, items) ==
  IF items = <<>> THEN facts
  ELSE SoftFacts(Put(facts, "soft:" \o Head(items).criterion,
                     [mark |-> ToString(Head(items).score) \o "/10",
                      text |-> Head(items).reasoning]),
                 Tail(items))

CandidateNotesAfter(c, ts) ==
  (IF c.notes # Undefined
     THEN <<[kind |-> "note", date |-> 0, text |-> c.notes]>>
     ELSE <<>>)
  \o (IF c.rejectionReason # Undefined
        THEN <<[kind |-> "rejected", date |-> ts, text |-> c.rejectionReason]>>
        ELSE <<>>)

\* the notes a candidate appends: rejection reason first, then free-text notes
CandidateNotes(c, ts) ==
  (IF c.rejectionReason # Undefined
     THEN <<[kind |-> "rejected", date |-> ts, text |-> c.rejectionReason]>>
     ELSE <<>>)
  \o (IF c.notes # Undefined
        THEN <<[kind |-> "note", date |-> 0, text |-> c.notes]>>
        ELSE <<>>)

UpsertServiceTakesUrl(ks, c, ts) ==
  LET key == NormalizeName(c.name)
      old == IF key \in DOMAIN ks
               THEN ks[key]
               ELSE [url |-> Undefined, lastChecked |-> ts, facts |-> <<>>,
                     verdict |-> Undefined, notes |-> <<>>]
      svc == [url |-> c.url,
              lastChecked |-> ts,
              facts |-> SoftFacts(HardFacts(old.facts, c.hardResults.items), c.softScores),
              verdict |-> c.verdict,
              notes |-> LastN(old.notes \o CandidateNotes(c, ts), MAX_NOTES)]
  IN Put(ks, key, svc)

\* body of the loop over session.candidates in saveSession
UpsertService(ks, c, ts) ==
  LET key == NormalizeName(c.name)
      old == IF key \in DOMAIN ks
               THEN ks[key]
               ELSE [url |-> Undefined, lastChecked |-> ts, facts |-> <<>>,
                     verdict |-> Undefined, notes |-> <<>>]
      svc == [url |-> IF c.url # Undefined THEN c.url ELSE old.url,
              lastChecked |-> ts,
              facts |-> SoftFacts(HardFacts(old.facts, c.hardResults.items), c.softScores),
              verdict |-> c.verdict,
              notes |-> LastN(old.notes \o CandidateNotes(c, ts), MAX_NOTES)]
  IN Put(ks, key, svc)

RECURSIVE UpsertAll(_, _, _)
UpsertAll(ks, cands, ts) ==
  IF cands = <<>> THEN ks
  ELSE UpsertAll(UpsertService(ks, Head(cands), ts), Tail(cands), ts)

\* `for (const hr of candidate.hardResults)` raises a TypeError on undefined
SaveThrows(session) ==
  \E i \in 1..Len(session.candidates) : ~session.candidates[i].hardResults.defined

\* saveSession: load, push, upsert known services, keep the last 50, rewrite.
\* When the loop over the candidates throws, saveMemory is never reached.
SaveSession(st, session) ==
  IF SaveThrows(session) THEN st
  ELSE [sessions |-> LastN(Append(st.sessions, session), MAX_SESSIONS),
        knownServices |-> UpsertAll(st.knownServices, session.candidates, session.timestamp)]

(***************************************************************************)
(* Memory context (memory.ts getMemoryContext, extractKeywords)            *)
(***************************************************************************)
\* the stop words of extractKeywords; its Russian entries are left out, no
\* text of the model is written in Cyrillic
STOP_WORDS ==
  {"that", "this", "with", "from", "have", "been", "will", "should", "could",
   "would", "must", "they", "their", "about", "which", "there", "were", "what",
   "when", "find", "need", "search", "look"}

MAX_CONTEXT_SESSIONS == 5
MAX_CONTEXT_QUERIES == 8
NO_HISTORY == "No prior research history."
NO_RELEVANT == "No relevant prior research found for this task."

\* text.toLowerCase().replace(/[^a-zа-яё0-9\s]/g, " ").split(/\s+/): the
\* lower-cased runs of letters and digits of the texts the model uses
Words(text) ==
  CASE text = "find sms provider" -> <<"find", "sms", "provider">>
    [] text = "Find SMS" -> <<"find", "sms">>
    [] text = "Argentina routes, provider?" -> <<"argentina", "routes", "provider", "">>
    [] text = "argentina routes" -> <<"argentina", "routes">>
    [] text = "email hosting" -> <<"email", "hosting">>
    [] text = "report" -> <<"report">>
    [] text = "long report" -> <<"long", "report">>
    [] text = "Argentina provider with direct routes" ->
         <<"argentina", "provider", "with", "direct", "routes">>
    [] text = "acme sms" -> <<"acme", "sms">>
    [] text = " ACME sms " -> <<"", "acme", "sms", "">>
    [] text = "beta" -> <<"beta">>
    [] text = "gamma" -> <<"gamma">>
    [] text = "direct routes" -> <<"direct", "routes">>
    [] text = "no routes" -> <<"no", "routes">>
    [] text = "resells routes" -> <<"resells", "routes">>
    [] text = "audit excerpt" -> <<"audit", "excerpt">>
    [] text = "YES" -> <<"yes">>
    [] text = "NO" -> <<"no">>
    [] text = Undefined -> <<"undefined">>
    [] OTHER -> <<>>

\* extractKeywords: words longer than 3 characters that are no stop words,
\* repetitions kept
ExtractKeywords(words) ==
  SelectSeq(words, LAMBDA x : Len(x) > 3 /\ x \notin STOP_WORDS)

\* the words of a conclusion: the final text cut to 500 characters (the
\* texts of the model keep their words within the cut), or the sentence
\* "Reached max iterations (10). Evaluated N candidates."
ConclusionWords(c) ==
  IF c.kind = "max_iterations"
    THEN <<"reached", "max", "iterations", "10", "evaluated", "n", "candidates">>
    ELSE Words(c.text)

\* extractKeywords(session.task + " " + session.conclusion), as a set:
\* the code only asks whether it includes a word
SessionWords(session) ==
  LET kw == ExtractKeywords(Words(session.task) \o ConclusionWords(session.conclusion))
  IN {kw[i] : i \in 1..Len(kw)}

ScoreCountsTaskOnly(taskWords, session) ==
  LET kw == ExtractKeywords(Words(session.task))
  IN Cardinality({i \in 1..Len(taskWords) : \E j \in 1..Len(kw) : kw[j] = taskWords[i]})

\* taskWords.filter((w) => sessionWords.includes(w)).length
Score(taskWords, session) ==
  Cardinality({i \in 1..Len(taskWords) : taskWords[i] \in SessionWords(session)})

\* store.sessions.map(...).filter((s) => s.score > 0)
Scored(taskWords, sessions) ==
  SelectSeq([i \in 1..Len(sessions) |->
               [session |-> sessions[i], score |-> Score(taskWords, sessions[i])]],
            LAMBDA s : s.score > 0)

SortByScoreAscending(scored) ==
  LET RECURSIVE Sorted(_)
      Sorted(k) ==
        IF k = 0 THEN <<>>
        ELSE LET done == Sorted(k - 1)
                 x == scored[k]
                 before == SelectSeq(done, LAMBDA y : y.score <= x.score)
                 after == SelectSeq(done, LAMBDA y : y.score > x.score)
             IN before \o <<x>> \o after
  IN Sorted(Len(scored))

\* .sort((a, b) => b.score - a.score): Array.prototype.sort is stable, so
\* each element goes behind the earlier ones whose score is not lower
SortByScore(scored) ==
  LET RECURSIVE Sorted(_)
      Sorted(k) ==
        IF k = 0 THEN <<>>
        ELSE LET done == Sorted(k - 1)
                 x == scored[k]
                 before == SelectSeq(done, LAMBDA y : y.score >= x.score)
                 after == SelectSeq(done, LAMBDA y : y.score < x.score)
             IN before \o <<x>> \o after
  IN Sorted(Len(scored))

\* arr.slice(0, n)
FirstN(s, n) == SubSeq(s, 1, Min(Len(s), n))

\* the sessions getMemoryContext renders for the task, in order
Relevant(taskWords, sessions) ==
  FirstN(SortByScore(Scored(taskWords, sessions)), MAX_CONTEXT_SESSIONS)

\* extractKeywords(name + " " + Object.values(info.facts).join(" ") + " " +
\* info.notes.join(" ")), as a set; a rejection note reads
\* `Rejected (${date}): ${reason}`, whose date leaves the year as a word
ServiceWords(name, info) ==
  LET ofSeq(kw) == {kw[i] : i \in 1..Len(kw)}
      fact(k) == Words(info.facts[k].mark) \o Words(info.facts[k].text)
      note(i) == (IF info.notes[i].kind = "rejected" THEN <<"rejected", "2026">> ELSE <<>>)
                 \o Words(info.notes[i].text)
  IN ofSeq(ExtractKeywords(Words(name)))
     \cup UNION {ofSeq(ExtractKeywords(fact(k))) : k \in DOMAIN info.facts}
     \cup UNION {ofSeq(ExtractKeywords(note(i))) : i \in 1..Len(info.notes)}

\* the known services one of whose words is a word of the task; the model's
\* stores never hold more than the 15 services the code lists
RelevantServices(taskWords, ks) ==
  {name \in DOMAIN ks :
     \E i \in 1..Len(taskWords) : taskWords[i] \in ServiceWords(name, ks[name])}

\* c.hardResults.filter(...) and c.verdict.toUpperCase() in the line of a
\* candidate raise a TypeError on undefined
RenderThrows(relevant) ==
  \E i \in 1..Len(relevant) : \E j \in 1..Len(relevant[i].session.candidates) :
    LET c == relevant[i].session.candidates[j]
    IN ~c.hardResults.defined \/ c.verdict = Undefined

\* the lines added for one relevant session
SessionLines(session) ==
  <<[kind |-> "session", id |-> session.id, task |-> session.task,
     conclusion |-> session.conclusion,
     candidates |-> [j \in 1..Len(session.candidates) |->
                       [name |-> session.candidates[j].name,
                        verdict |-> session.candidates[j].verdict,
                        rejected |-> session.candidates[j].rejectionReason]],
     queries |-> FirstN(session.searchQueries, MAX_CONTEXT_QUERIES)]>>

RECURSIVE AllSessionLines(_)
AllSessionLines(relevant) ==
  IF relevant = <<>> THEN <<>>
  ELSE SessionLines(Head(relevant).session) \o AllSessionLines(Tail(relevant))

\* getMemoryContext(task) on the store loadMemory returned: the text as its
\* sequence of lines, or threw when rendering raised
GetMemoryContext(st, task) ==
  LET taskWords == ExtractKeywords(Words(task))
      relevant == Relevant(taskWords, st.sessions)
      services == RelevantServices(taskWords, st.knownServices)
      context ==
        (IF relevant # <<>>
           THEN <<[kind |-> "heading", text |-> "## RELEVANT PAST RESEARCH"]>>
                \o AllSessionLines(relevant)
           ELSE <<>>)
        \o (IF services # {}
              THEN <<[kind |-> "heading", text |-> "## KNOWN SERVICES"],
                     [kind |-> "services", names |-> services]>>
              ELSE <<>>)
  IN IF st.sessions = <<>> /\ DOMAIN st.knownServices = {}
       THEN [threw |-> FALSE, text |-> <<[kind |-> "heading", text |-> NO_HISTORY]>>]
     ELSE IF RenderThrows(relevant) THEN [threw |-> TRUE, text |-> <<>>]
     ELSE IF context = <<>>
       THEN [threw |-> FALSE, text |-> <<[kind |-> "heading", text |-> NO_RELEVANT]>>]
     ELSE [threw |-> FALSE, text |-> context]

(***************************************************************************)
(* Text layouts (agent.ts handleEvaluation, JSON.stringify of a tool input) *)
(***************************************************************************)
\* String.prototype.length of the strings the inputs are made of
StrLen(str) ==
  CASE str = "Acme SMS" -> 8
    [] str = " ACME sms " -> 10
    [] str = "Beta" -> 4
    [] str = "Gamma" -> 5
    [] str = "acme.example" -> 12
    [] str = "coverage" -> 8
    [] str = "direct routes" -> 13
    [] str = "no routes" -> 9
    [] str = "resells routes" -> 14
    [] str = "audit excerpt" -> 1200
    [] str = "pass" -> 4
    [] str = "fail" -> 4
    [] str = "partial" -> 7
    [] str = "ERROR: SERPER_API_KEY not set" -> 75
    [] str = "Serper search error" -> 40
    [] str = "Gemini search error" -> 40
    [] str = "Could not access" -> 50
    [] str = "Extraction failed for" -> 60
    [] str = "FAILED" -> 30
    [] OTHER -> 0

\* String(n).length of a small count
Digits(n) == IF n < 10 THEN 1 ELSE 2

\* hardResults.filter((r) => r.passed).length
RECURSIVE PassedCount(_)
PassedCount(items) ==
  IF items = <<>> THEN 0
  ELSE (IF Head(items).passed THEN 1 ELSE 0) + PassedCount(Tail(items))

\* characters the loop over hardResults adds to the report:
\* `  ${mark} ${criterion}\n` and `     ${evidence}\n`
RECURSIVE HardLines(_)
HardLines(items) ==
  IF items = <<>> THEN 0
  ELSE 5 + StrLen(Head(items).criterion) + 6 + StrLen(Head(items).evidence)
       + HardLines(Tail(items))

\* characters of the soft-criteria lines: `  ${score}/10 — ${criterion}\n`
\* and `     ${reasoning}\n`
RECURSIVE SoftLines(_)
SoftLines(items) ==
  IF items = <<>> THEN 0
  ELSE 2 + Digits(Head(items).score) + 6 + StrLen(Head(items).criterion) + 1
       + 6 + StrLen(Head(items).reasoning)
       + SoftLines(Tail(items))

\* layout of the report handleEvaluation returns: its length, and the offsets
\* at which the verdict and the rejection reason end (0: not in the report)
Report(input) ==
  LET passed == PassedCount(input.hard.items)
      total == Len(input.hard.items)
      head == 16 + StrLen(input.cname) + 1 + 51
              + 15 + Digits(passed) + 1 + Digits(total) + 1
              + (IF passed = total THEN 12 ELSE 8) + 1
      soft == IF input.soft = <<>> THEN 0 ELSE 20 + 3 + 4 + SoftLines(input.soft)
      verdictEnd == head + HardLines(input.hard.items) + soft + 10 + StrLen(input.verdict)
      rejectionEnd == IF input.rejection # Undefined
                        THEN verdictEnd + 3 + StrLen(input.rejection) ELSE 0
      notes == IF input.notes # Undefined THEN 8 + StrLen(input.notes) ELSE 0
  IN [len |-> (IF rejectionEnd > 0 THEN rejectionEnd ELSE verdictEnd) + notes + 1,
      verdictEnd |-> verdictEnd, rejectionEnd |-> rejectionEnd]

\* characters of the elements of hard_criteria in JSON.stringify(input)
RECURSIVE HardJson(_)
HardJson(items) ==
  IF items = <<>> THEN 0
  ELSE 40 + StrLen(Head(items).criterion) + StrLen(Head(items).evidence)
       + (IF Head(items).passed THEN 4 ELSE 5)
       + (IF Tail(items) = <<>> THEN 0 ELSE 1)
       + HardJson(Tail(items))

\* characters of the elements of soft_criteria in JSON.stringify(input)
RECURSIVE SoftJson(_)
SoftJson(items) ==
  IF items = <<>> THEN 0
  ELSE 40 + StrLen(Head(items).criterion) + Digits(Head(items).score)
       + StrLen(Head(items).reasoning)
       + (IF Tail(items) = <<>> THEN 0 ELSE 1)
       + SoftJson(Tail(items))

\* JSON.stringify(block.input) of an evaluate call whose keys come in the
\* order of the tool schema: the offsets at which the verdict and the
\* rejection reason end (0: not in the input)
ArgsJson(input) ==
  LET name == 1 + 10 + StrLen(input.cname)
      url == IF input.url # Undefined THEN 9 + StrLen(input.url) ELSE 0
      hard == IF input.hard.defined THEN 17 + HardJson(input.hard.items) + 2 ELSE 0
      soft == IF input.soft # <<>> THEN 17 + SoftJson(input.soft) + 2 ELSE 0
      verdictEnd == IF input.verdict # Undefined
                      THEN name + url + hard + soft + 10 + StrLen(input.verdict) + 2 ELSE 0
      rejectionEnd == IF input.rejection # Undefined
                        THEN (IF verdictEnd > 0 THEN verdictEnd ELSE name + url + hard + soft)
                             + 20 + StrLen(input.rejection) + 2
                        ELSE 0
  IN [verdictEnd |-> verdictEnd, rejectionEnd |-> rejectionEnd]

(***************************************************************************)
(* State                                                                   *)
(***************************************************************************)
VARIABLES
  runs,               \* per invocation: the locals of runResearchAgent and of its caller
  sessionCandidates,  \* agent.ts module-level accumulator
  sessionQueries,     \* agent.ts module-level accumulator
  store,              \* the memory document on disk
  activeSessions,     \* telegram.ts Set<number> of chat ids
  now,                \* Date.now(), advanced when a session record is assembled
  env,                \* process.env as far as the export collaborator reads it
  memoryFile          \* what the file system holds at MEMORY_PATH

vars == <<runs, sessionCandidates, sessionQueries, store, activeSessions, now, env, memoryFile>>

ExportEnvs == {"no_sheet_id", "no_key", "bad_key", "configured"}

\* response.usage of every engine response
Usage == [input_tokens |-> 1000, output_tokens |-> 200]

\* final texts of a finish-intent response: an identity and a length in characters
FinalTexts == {[text |-> "report", len |-> 120], [text |-> "long report", len |-> 700]}

\* no compressHistory call was made in the current iteration
NoCompress == [input |-> <<>>, summarizer |-> "none", output |-> <<>>]

IdleRun ==
  [pc |-> "idle", chat |-> NoChat, task |-> "", phase |-> "NONE",
   iterations |-> 0, attempt |-> 0, waits |-> <<>>, messages |-> <<>>,
   toolCallCount |-> 0, totalInputTokens |-> 0, totalOutputTokens |-> 0,
   memoryContext |-> <<>>, memoryLoaded |-> FALSE,
   blocks |-> <<>>, idx |-> 0, toolResults |-> <<>>,
   finalText |-> [text |-> "", len |-> 0],
   session |-> <<>>, result |-> <<>>, error |-> "", sent |-> {},
   \* history of the run, read by the properties only
   saveCalls |-> 0, exportCalls |-> 0,
   ownCandidates |-> <<>>, ownQueries |-> <<>>,
   stopped |-> FALSE, stoppedAtSave |-> FALSE,
   lastStatus |-> 0, exportOutcome |-> "none",
   compressCalls |-> <<>>, compress |-> NoCompress,
   fileAtStart |-> "", memoryAtStart |-> EmptyStore, usages |-> <<>>,
   summaryFailed |-> FALSE]

\* everything a step of run r can read or write
World(r) ==
  [run |-> runs[r], cands |-> sessionCandidates, queries |-> sessionQueries,
   store |-> store, active |-> activeSessions, now |-> now, file |-> memoryFile]

Commit(r, w) ==
  /\ runs' = [runs EXCEPT ![r] = w.run]
  /\ sessionCandidates' = w.cands
  /\ sessionQueries' = w.queries
  /\ store' = w.store
  /\ activeSessions' = w.active
  /\ now' = w.now
  /\ memoryFile' = w.file
  /\ UNCHANGED env

(***************************************************************************)
(* The caller of runResearchAgent                                          *)
(***************************************************************************)
\* The continuation of `await runResearchAgent(...)`: main() prints the report;
\* handleResearch checks activeSessions, then starts sending or reports the error.
Settle(w) ==
  IF w.run.chat = NoChat THEN [w EXCEPT !.run.pc = "done"]
  ELSE IF w.run.error # ""
    THEN [w EXCEPT !.run.pc = "error_msg", !.run.sent = @ \cup {"error"}]
  ELSE IF w.run.chat \notin w.active
    THEN [w EXCEPT !.run.pc = "done", !.active = @ \ {w.run.chat}]
  ELSE [w EXCEPT !.run.pc = "send_answer", !.run.sent = @ \cup {"answer"}]

\* a rejection of the promise of runResearchAgent
Throw(w, err) == Settle([w EXCEPT !.run.error = err])

(***************************************************************************)
(* FINISHED / EXHAUSTED: assemble, persist, export, return                 *)
(***************************************************************************)
CostPerResponse(inTok, outTok) == inTok * 3 + outTok * 15 + 1000

\* (totalInputTokens / 1e6) * 3 + (totalOutputTokens / 1e6) * 15, in millionths of a dollar
Cost(inTok, outTok) == inTok * 3 + outTok * 15

\* sessionCandidates.find((c) => c.verdict === "pass")?.name
BestMatch(cands) ==
  IF \E i \in 1..Len(cands) : cands[i].verdict = "pass"
    THEN cands[CHOOSE i \in 1..Len(cands) :
                 /\ cands[i].verdict = "pass"
                 /\ \A j \in 1..(i - 1) : cands[j].verdict # "pass"].name
    ELSE Undefined

\* the ResearchSession literal of the end_turn branch
FinishedSession(w) ==
  [id |-> w.now, timestamp |-> w.now, task |-> w.run.task,
   candidates |-> w.cands, bestMatch |-> BestMatch(w.cands),
   searchQueries |-> w.queries,
   conclusion |-> [kind |-> "final", text |-> w.run.finalText.text,
                   len |-> Min(w.run.finalText.len, CONCLUSION_CHARS), n |-> 0]]

\* the ResearchSession literal after the loop: no bestMatch property
ExhaustedSession(w) ==
  [id |-> w.now, timestamp |-> w.now, task |-> w.run.task,
   candidates |-> w.cands, bestMatch |-> Undefined,
   searchQueries |-> w.queries,
   conclusion |-> [kind |-> "max_iterations", text |-> "", len |-> 0, n |-> Len(w.cands)]]

\* the object returned by runResearchAgent
Result(w, sheetUrl) ==
  [answer |-> IF w.run.phase = "FINISHED"
                THEN [kind |-> "final", text |-> w.run.finalText.text,
                      len |-> w.run.finalText.len, n |-> 0]
                ELSE [kind |-> "stopped_after", text |-> "", len |-> 0, n |-> Len(w.cands)],
   iterations |-> w.run.iterations,
   toolCalls |-> w.run.toolCallCount,
   candidatesEvaluated |-> Len(w.cands),
   sheetUrl |-> IF w.run.phase = "FINISHED" /\ sheetUrl # "" THEN sheetUrl ELSE Undefined,
   cost |-> [inputTokens |-> w.run.totalInputTokens,
             outputTokens |-> w.run.totalOutputTokens,
             estimatedUsd |-> Cost(w.run.totalInputTokens, w.run.totalOutputTokens)]]

Return(w, sheetUrl) == Settle([w EXCEPT !.run.result = <<Result(w, sheetUrl)>>])

\* exportToSheets up to its first suspension: the sheet id is read, then
\* getSheetsClient() runs outside the try block
ExportStart(w) ==
  LET w1 == [w EXCEPT !.run.exportCalls = @ + 1]
  IN CASE env = "no_sheet_id" -> Return([w1 EXCEPT !.run.exportOutcome = "empty"], "")
       [] env \in {"no_key", "bad_key"} ->
            Throw([w1 EXCEPT !.run.exportOutcome = "threw"], "export_auth")
       [] OTHER -> [w1 EXCEPT !.run.pc = "export"]

PersistStale(w, session) ==
  LET w1 == [w EXCEPT !.run.session = <<session>>,
                      !.run.saveCalls = @ + 1,
                      !.run.stoppedAtSave = w.run.stopped,
                      !.now = @ + 1]
  IN IF SaveThrows(session) THEN Throw(w1, "save_TypeError")
     ELSE IF WriteThrows(w.file) THEN Throw(w1, "save_EISDIR")
     ELSE ExportStart([w1 EXCEPT
            !.store = SaveSession(w.run.memoryAtStart, session),
            !.file = "valid"])

\* saveSession(session) and what follows it in both branches
Persist(w, session) ==
  LET w1 == [w EXCEPT !.run.session = <<session>>,
                      !.run.saveCalls = @ + 1,
                      !.run.stoppedAtSave = w.run.stopped,
                      !.now = @ + 1]
  IN IF SaveThrows(session) THEN Throw(w1, "save_TypeError")
     ELSE IF WriteThrows(w.file) THEN Throw(w1, "save_EISDIR")
     ELSE ExportStart([w1 EXCEPT
            !.store = SaveSession(LoadMemory(w.file, w.store), session),
            !.file = "valid"])

\* the end_turn branch
Finish(w) == LET w1 == [w EXCEPT !.run.phase = "FINISHED"] IN Persist(w1, FinishedSession(w1))

ExhaustNoSave(w) ==
  LET w1 == [w EXCEPT !.run.phase = "EXHAUSTED"]
  IN ExportStart([w1 EXCEPT !.run.session = <<ExhaustedSession(w1)>>])

\* the code after the while loop
Exhaust(w) == LET w1 == [w EXCEPT !.run.phase = "EXHAUSTED"] IN Persist(w1, ExhaustedSession(w1))

(***************************************************************************)
(* History compressor (compress.ts)                                        *)
(***************************************************************************)
\* a turn of the conversation; facts: the verdicts and rejection reasons a
\* summary turn states
Turn(role, kind, text, items, n) ==
  [role |-> role, kind |-> kind, text |-> text, items |-> items, n |-> n, facts |-> {}]

TaskTurn(task) == Turn("user", "task", task, <<>>, 0)

TailOfTwo(messages) == LastN(messages, KEEP_LAST_EXCHANGES)

\* messages.slice(-tailCount)
Tail4(messages) == LastN(messages, KEEP_LAST_EXCHANGES * 2)

MiddleOfShortTail(messages) ==
  IF Len(messages) - KEEP_LAST_EXCHANGES < 2 THEN <<>>
  ELSE SubSeq(messages, 2, Len(messages) - KEEP_LAST_EXCHANGES)

\* messages.slice(1, -tailCount)
Middle(messages) ==
  IF Len(messages) - KEEP_LAST_EXCHANGES * 2 < 2 THEN <<>>
  ELSE SubSeq(messages, 2, Len(messages) - KEEP_LAST_EXCHANGES * 2)

CallsSummarizerAnyMiddle(messages) == ~(Len(messages) < MIN_MESSAGES)

\* compressHistory gets past both early returns and calls the summarizer
CallsSummarizer(messages) ==
  /\ ~(Len(messages) < MIN_MESSAGES)
  /\ ~(Len(Middle(messages)) < MIN_MIDDLE)

ARGS_CAP == 200
RESULT_CAP == 1000

\* the verdict and the rejection reason of an evaluate call, as facts
VerdictFact(input) == <<input.cname, "verdict", input.verdict>>
RejectionFact(input) == <<input.cname, "rejection", input.rejection>>

\* what a part of offsets [verdictEnd, rejectionEnd] still states after
\* slice(0, cap)
Kept(input, ends, cap) ==
  (IF ends.verdictEnd > 0 /\ ends.verdictEnd <= cap THEN {VerdictFact(input)} ELSE {})
  \cup (IF ends.rejectionEnd > 0 /\ ends.rejectionEnd <= cap THEN {RejectionFact(input)} ELSE {})

\* the block of the preceding assistant turn that a tool result answers
CallOf(messages, i, j) == messages[i - 1].items[j]

\* serializeMessages: the verdicts and rejection reasons that the text handed
\* to the summarizer states for turn i. A string turn goes in whole, the input
\* of a tool call is cut at 200 characters, a tool result at 1000.
SerializedFacts(messages, i) ==
  LET t == messages[i]
  IN CASE t.kind = "tool_use" ->
            UNION {IF t.items[j].name = "evaluate"
                     THEN Kept(t.items[j], ArgsJson(t.items[j]), ARGS_CAP)
                     ELSE {} : j \in 1..Len(t.items)}
       [] t.kind = "tool_result" ->
            UNION {IF t.items[j].content.kind = "report"
                     THEN Kept(CallOf(messages, i, j), Report(CallOf(messages, i, j)),
                               Min(RESULT_CAP, t.items[j].content.len))
                     ELSE {} : j \in 1..Len(t.items)}
       [] OTHER -> t.facts

\* serializeMessages(middle)
Transcript(messages) ==
  UNION {SerializedFacts(messages, i) :
           i \in 2..(Len(messages) - KEEP_LAST_EXCHANGES * 2)}

CompressedNoAck(messages) ==
  <<messages[1],
    [Turn("user", "summary", "", <<>>, Len(Middle(messages)))
       EXCEPT !.facts = Transcript(messages)]>>
  \o Tail4(messages)

\* the array compressHistory builds when the summarizer answered; the summary
\* states every verdict and rejection reason of the text it was given
Compressed(messages) ==
  <<messages[1],
    Turn("assistant", "ack", "", <<>>, 0),
    [Turn("user", "summary", "", <<>>, Len(Middle(messages)))
       EXCEPT !.facts = Transcript(messages)]>>
  \o Tail4(messages)

(***************************************************************************)
(* Orchestration loop (agent.ts runResearchAgent)                          *)
(***************************************************************************)
AtCompressBoundaryEveryFive(it) == it > 1 /\ (it - 1) % 5 = 0

\* iterations > 1 && (iterations - 1) % COMPRESS_EVERY === 0
AtCompressBoundary(it) == it > 1 /\ (it - 1) % COMPRESS_EVERY = 0

BackoffConstant(attempt) == Min(BACKOFF_STEP, BACKOFF_CAP)

\* Math.min(15 * (attempt + 1), 60)
Backoff(attempt) == Min(BACKOFF_STEP * (attempt + 1), BACKOFF_CAP)

RetriesAnyError(status, attempt) == attempt < MAX_ATTEMPTS - 1

\* err?.status === 429 && attempt < 4
Retries(status, attempt) == status = 429 /\ attempt < MAX_ATTEMPTS - 1

\* messages.create(...) is issued
CallEngine(w) == [w EXCEPT !.run.pc = "engine"]

CompressStartSkips(w) ==
  CallEngine([w EXCEPT !.run.compressCalls = Append(@, w.run.iterations),
                       !.run.compress = [input |-> w.run.messages, summarizer |-> "none",
                                         output |-> w.run.messages]])

\* compressHistory from its first line to the summarizer call or to one of
\* its two early returns
CompressStart(w) ==
  LET m == w.run.messages
      w1 == [w EXCEPT !.run.compressCalls = Append(@, w.run.iterations)]
  IN IF CallsSummarizer(m)
       THEN [w1 EXCEPT !.run.pc = "compress",
                       !.run.compress = [input |-> m, summarizer |-> "pending", output |-> <<>>]]
       ELSE CallEngine([w1 EXCEPT
              !.run.compress = [input |-> m, summarizer |-> "none", output |-> m]])

LoopHeadOffByOne(w) ==
  IF w.run.iterations <= MAX_ITERATIONS
    THEN LET it == w.run.iterations + 1
             w1 == [w EXCEPT !.run.iterations = it, !.run.attempt = 0,
                             !.run.waits = <<>>, !.run.lastStatus = 0,
                             !.run.compress = NoCompress]
         IN IF AtCompressBoundary(it) THEN CompressStart(w1) ELSE CallEngine(w1)
    ELSE Exhaust(w)

\* `while (iterations < MAX_ITERATIONS) { iterations++; ...` up to the next suspension
LoopHead(w) ==
  IF w.run.iterations < MAX_ITERATIONS
    THEN LET it == w.run.iterations + 1
             w1 == [w EXCEPT !.run.iterations = it, !.run.attempt = 0,
                             !.run.waits = <<>>, !.run.lastStatus = 0,
                             !.run.compress = NoCompress]
         IN IF AtCompressBoundary(it) THEN CompressStart(w1) ELSE CallEngine(w1)
    ELSE Exhaust(w)

(***************************************************************************)
(* Tool gateway (agent.ts executeTool, handleEvaluation)                   *)
(***************************************************************************)
MAX_RESULT == 4000

TrimmedKeepsAll(len) ==
  [kind |-> "text", detail |-> "", len |-> len, notice |-> len > MAX_RESULT, raw |-> len]

\* result.length > MAX_RESULT ? result.slice(0, MAX_RESULT) + notice : result
\* len is the length of what is kept of the output; raw is the length of the
\* output, which the notice states (`[Truncated: ${result.length} chars total ...`)
Trimmed(len) ==
  [kind |-> "text", detail |-> "", len |-> Min(len, MAX_RESULT), notice |-> len > MAX_RESULT,
   raw |-> len]

ToolResult(id, content) == [tool_use_id |-> id, is_error |-> FALSE, content |-> content]

ErrorResult(id, msg) ==
  [tool_use_id |-> id, is_error |-> TRUE,
   content |-> [kind |-> "error", detail |-> msg, len |-> 0, notice |-> FALSE, raw |-> 0]]

\* the CandidateRecord literal of handleEvaluation
Candidate(input) ==
  [name |-> input.cname, url |-> input.url, verdict |-> input.verdict,
   hardResults |-> input.hard, softScores |-> input.soft,
   rejectionReason |-> input.rejection, notes |-> input.notes]

\* handleEvaluation pushes the candidate first; building the report then
\* dereferences hardResults (.filter) and verdict (.toUpperCase())
EvaluationThrows(input) == ~input.hard.defined \/ input.verdict = Undefined

\* the tool result of an evaluate call: the trimmed report, or the error
EvaluationResult(id, input) ==
  IF EvaluationThrows(input)
    THEN ErrorResult(id, "TypeError")
    ELSE ToolResult(id, [kind |-> "report", detail |-> input.cname,
                         len |-> Min(Report(input).len, MAX_RESULT),
                         notice |-> Report(input).len > MAX_RESULT,
                         raw |-> Report(input).len])

ToolUseIdOfFirst(w) == 1

\* toolCall.id of the block being executed: ids are unique within a run,
\* here the ordinal of the call in the run
ToolUseId(w) == w.run.toolCallCount

HandleEvaluationRecording(w, tc, id) ==
  [w EXCEPT !.cands = Append(@, Candidate(tc)),
            !.run.ownCandidates = Append(@, Candidate(tc)),
            !.run.toolResults = Append(@, EvaluationResult(id, tc)),
            !.store = [LoadMemory(w.file, w.store) EXCEPT
                         !.knownServices = Put(@, NormalizeName(tc.cname), <<>>)],
            !.file = "valid"]

\* executeTool("evaluate", input): handleEvaluation pushes the candidate on
\* the accumulator, then returns its report or raises; the loop appends the
\* trimmed report or the error-flagged result
HandleEvaluation(w, tc, id) ==
  [w EXCEPT !.cands = Append(@, Candidate(tc)),
            !.run.ownCandidates = Append(@, Candidate(tc)),
            !.run.toolResults = Append(@, EvaluationResult(id, tc))]

\* the failures of the collaborators of a search or page tool: no API key,
\* a response that is not ok, an unreachable host, a failing Gemini call
Failures(tc) ==
  CASE tc.name = "google_search" -> {"no_api_key", "http_error", "unreachable"}
    [] tc.name = "discover" -> {"no_api_key", "gemini_error"}
    [] tc.name = "extract_page" -> {"http_error", "unreachable", "no_api_key", "gemini_error"}
    [] tc.name = "read_page" -> {"http_error", "unreachable"}
    [] OTHER -> {}

\* the text serperSearch, geminiGroundedSearch, extractFromUrl and
\* getPageText return from their catch blocks and early returns
FailureText(tc, failure) ==
  CASE tc.name = "google_search" ->
         IF failure = "no_api_key" THEN "ERROR: SERPER_API_KEY not set"
         ELSE "Serper search error"
    [] tc.name = "discover" -> "Gemini search error"
    [] tc.name = "extract_page" ->
         IF failure \in {"http_error", "unreachable"} THEN "Could not access"
         ELSE "Extraction failed for"
    [] OTHER -> "FAILED"

ToolFailureRaises(w, failure) ==
  [w EXCEPT !.run.toolResults =
     Append(@, ErrorResult(ToolUseId(w), FailureText(w.run.blocks[w.run.idx], failure)))]

\* a collaborator of the tool in flight failed: the tool returns a text
\* that says so, and the loop appends it as any other output
ToolFailure(w, failure) ==
  [w EXCEPT
     !.run.toolResults =
        Append(@, ToolResult(ToolUseId(w),
                 [Trimmed(StrLen(FailureText(w.run.blocks[w.run.idx], failure))) EXCEPT
                    !.detail = FailureText(w.run.blocks[w.run.idx], failure)]))]

LoggedQueryUntagged(tc) == tc.query

\* what a search tool pushes on sessionQueries before it awaits its
\* collaborator: `query` for google_search, `[discover] ${query}` for discover
LoggedQuery(tc) == IF tc.name = "discover" THEN "[discover] " \o tc.query ELSE tc.query

\* the for loop over toolBlocks from block idx up to the next suspension;
\* after the last block both turns are pushed and the while loop goes on
RECURSIVE ExecTools(_)
ExecTools(w) ==
  LET k == w.run.idx
  IN IF k > Len(w.run.blocks)
       THEN LoopHead([w EXCEPT
              !.run.messages = @ \o <<Turn("assistant", "tool_use", "", w.run.blocks, 0),
                                      Turn("user", "tool_result", "", w.run.toolResults, 0)>>,
              !.run.blocks = <<>>, !.run.toolResults = <<>>, !.run.idx = 0])
       ELSE LET tc == w.run.blocks[k]
                w1 == [w EXCEPT !.run.toolCallCount = @ + 1]
                id == ToolUseId(w1)
            IN CASE tc.name = "google_search" ->
                      [w1 EXCEPT !.queries = Append(@, LoggedQuery(tc)),
                                 !.run.ownQueries = Append(@, LoggedQuery(tc)),
                                 !.run.pc = "tool"]
                 [] tc.name = "discover" ->
                      [w1 EXCEPT !.queries = Append(@, LoggedQuery(tc)),
                                 !.run.ownQueries = Append(@, LoggedQuery(tc)),
                                 !.run.pc = "tool"]
                 [] tc.name \in {"extract_page", "read_page"} ->
                      [w1 EXCEPT !.run.pc = "tool"]
                 [] tc.name = "evaluate" ->
                      ExecTools([HandleEvaluation(w1, tc, id) EXCEPT !.run.idx = k + 1])
                 [] OTHER ->
                      ExecTools([w1 EXCEPT
                        !.run.toolResults = Append(@, ErrorResult(id, "Unknown tool")),
                        !.run.idx = k + 1])

(***************************************************************************)
(* Inputs of the engine                                                    *)
(***************************************************************************)
ToolCalls ==
  {SearchCall, DiscoverCall, ExtractCall, ReadCall,
   EvalPass, EvalFail, EvalNoHard, EvalNoVerdict, UnknownCall}

NoText == [text |-> "", len |-> 0]

\* the tool_use blocks of one response: any single call, or one of a few pairs
BlockSeqs(calls) ==
  {<<c>> : c \in calls}
  \cup {<<SearchCall, EvalPass>>, <<EvalNoHard, ExtractCall>>, <<UnknownCall, EvalFail>>}

\* what messages.create may resolve with
Responses(calls) ==
  {[stop_reason |-> "end_turn", text |-> t, blocks |-> <<>>] : t \in FinalTexts}
  \cup {[stop_reason |-> "tool_use", text |-> NoText, blocks |-> b] : b \in BlockSeqs(calls)}
  \cup {[stop_reason |-> "max_tokens", text |-> NoText, blocks |-> <<>>]}

\* the response keeps run r within cap tool invocations
WithinCap(r, resp, cap) == runs[r].toolCallCount + Len(resp.blocks) <= cap

\* raw output lengths of the search and page collaborators
OutputLens == {800, 9000}

(***************************************************************************)
(* Actions of a run                                                        *)
(***************************************************************************)
ResetCandidatesOnly(w) == [w EXCEPT !.cands = <<>>]

\* sessionCandidates.length = 0; sessionQueries.length = 0;
Reset(w) == [w EXCEPT !.cands = <<>>, !.queries = <<>>]

\* runResearchAgent from its first line to its first suspension: the
\* accumulators are emptied, the memory context is read (a TypeError raised
\* while rendering it rejects the run), the locals are set, the loop begins
StartRun(w, task) ==
  LET loaded == LoadMemory(w.file, w.store)
      ctx == GetMemoryContext(loaded, task)
      w1 == [Reset(w) EXCEPT !.run.task = task, !.run.fileAtStart = w.file,
                             !.run.memoryAtStart = loaded]
  IN IF ctx.threw THEN Throw(w1, "context_TypeError")
     ELSE LoopHead([w1 EXCEPT
            !.run.phase = "ITERATING",
            !.run.memoryContext = ctx.text,
            !.run.memoryLoaded = ctx.text[1].text \notin {NO_HISTORY, NO_RELEVANT},
            !.run.messages = <<TaskTurn(task)>>,
            !.run.iterations = 0, !.run.toolCallCount = 0,
            !.run.totalInputTokens = 0, !.run.totalOutputTokens = 0,
            !.run.usages = <<>>])

\* main(): one run per process, no chat
CliStart(r) ==
  /\ runs[r].pc = "idle"
  /\ Commit(r, StartRun([World(r) EXCEPT !.run.chat = NoChat], "find sms provider"))

\* main() of a later process, given its task on the command line: the
\* processes before it have exited, its accumulators are its own
CliStartNext(r, task) ==
  /\ runs[r].pc = "idle"
  /\ \A q \in Runs \ {r} : runs[q].pc \in {"idle", "done"}
  /\ Commit(r, StartRun([World(r) EXCEPT !.run.chat = NoChat], task))

\* messages.create resolved with a response of the given usage: the usage is
\* added to the totals, then the branch on stop_reason
EngineReplyUsing(r, resp, usage) ==
  /\ runs[r].pc = "engine"
  /\ LET w == [World(r) EXCEPT
                 !.run.totalInputTokens = @ + usage.input_tokens,
                 !.run.totalOutputTokens = @ + usage.output_tokens,
                 !.run.usages = Append(@, usage)]
     IN Commit(r,
          CASE resp.stop_reason = "end_turn" ->
                 Finish([w EXCEPT !.run.finalText = resp.text])
            [] resp.stop_reason = "tool_use" ->
                 ExecTools([w EXCEPT !.run.blocks = resp.blocks,
                                     !.run.toolResults = <<>>, !.run.idx = 1])
            [] OTHER -> LoopHead(w))

\* messages.create resolved with a response of the usual usage
EngineReply(r, resp) == EngineReplyUsing(r, resp, Usage)

\* messages.create rejected with the given status
EngineFailure(r, status) ==
  /\ runs[r].pc = "engine"
  /\ LET w == [World(r) EXCEPT !.run.lastStatus = status]
     IN Commit(r,
          IF Retries(status, w.run.attempt)
            THEN [w EXCEPT !.run.pc = "wait",
                           !.run.waits = Append(@, Backoff(w.run.attempt))]
            ELSE Throw(w, IF status = 429 THEN "rate_limit" ELSE "engine_error"))

\* the backoff timer fired: `continue` into the next attempt
BackoffDone(r) ==
  /\ runs[r].pc = "wait"
  /\ Commit(r, CallEngine([World(r) EXCEPT !.run.attempt = @ + 1]))

\* a search or page collaborator returned text of the given length
ToolReturn(r, len) ==
  /\ runs[r].pc = "tool"
  /\ LET w == World(r)
         id == ToolUseId(w)
     IN Commit(r, ExecTools([w EXCEPT
          !.run.toolResults = Append(@, ToolResult(id, Trimmed(len))),
          !.run.idx = @ + 1]))

\* a collaborator of the search or page tool in flight failed
ToolFailed(r, failure) ==
  /\ runs[r].pc = "tool"
  /\ failure \in Failures(runs[r].blocks[runs[r].idx])
  /\ Commit(r, ExecTools([ToolFailure(World(r), failure) EXCEPT !.run.idx = @ + 1]))

CompressReturnRejects(w, ok) ==
  IF ok
    THEN CallEngine([w EXCEPT !.run.messages = Compressed(@),
                              !.run.compress.summarizer = "ok",
                              !.run.compress.output = Compressed(w.run.messages)])
    ELSE Throw([w EXCEPT !.run.compress.summarizer = "failed"], "compress_error")

\* generateContent resolved (ok) or rejected: compressHistory returns the
\* compressed array or, from its catch block, its argument, and the loop
\* assigns it to messages
CompressReturn(w, ok) ==
  IF ok
    THEN CallEngine([w EXCEPT !.run.messages = Compressed(@),
                              !.run.compress.summarizer = "ok",
                              !.run.compress.output = Compressed(w.run.messages)])
    ELSE CallEngine([w EXCEPT !.run.compress.summarizer = "failed",
                              !.run.compress.output = w.run.messages,
                              !.run.summaryFailed = TRUE])

\* the summarizer answered (ok) or failed
CompressDone(r, ok) ==
  /\ runs[r].pc = "compress"
  /\ Commit(r, CompressReturn(World(r), ok))

\* the Sheets calls inside the try block of exportToSheets finished
ExportDone(r, ok) ==
  /\ runs[r].pc = "export"
  /\ Commit(r, Return([World(r) EXCEPT !.run.exportOutcome = IF ok THEN "url" ELSE "empty"],
                       IF ok THEN "sheet-url" ELSE ""))

(***************************************************************************)
(* Command-line process: one run                                           *)
(***************************************************************************)
Init ==
  /\ runs = [r \in Runs |-> IdleRun]
  /\ sessionCandidates = <<>>
  /\ sessionQueries = <<>>
  /\ store = EmptyStore
  /\ activeSessions = {}
  /\ now = 1
  /\ env \in ExportEnvs
  /\ memoryFile = "missing"

Next ==
  \E r \in {1} :
    \/ CliStart(r)
    \/ \E resp \in Responses(ToolCalls) :
         WithinCap(r, resp, MaxToolCalls) /\ EngineReply(r, resp)
    \/ \E status \in {429, 500} : EngineFailure(r, status)
    \/ BackoffDone(r)
    \/ \E len \in OutputLens : ToolReturn(r, len)
    \/ \E ok \in BOOLEAN : ExportDone(r, ok)

Spec == Init /\ [][Next]_vars

(***************************************************************************)
(* Command-line process: one long run, with the compressor                 *)
(***************************************************************************)
\* what the engine asks for in the long run
LongCalls == {EvalFail, EvalLong, ExtractCall}

LongResponses ==
  {[stop_reason |-> "end_turn", text |-> [text |-> "report", len |-> 120], blocks |-> <<>>]}
  \cup {[stop_reason |-> "tool_use", text |-> NoText, blocks |-> <<c>>] : c \in LongCalls}
  \cup {[stop_reason |-> "max_tokens", text |-> NoText, blocks |-> <<>>]}

InitLong ==
  /\ runs = [r \in Runs |-> IdleRun]
  /\ sessionCandidates = <<>>
  /\ sessionQueries = <<>>
  /\ store = EmptyStore
  /\ activeSessions = {}
  /\ now = 1
  /\ env = "configured"
  /\ memoryFile = "missing"

NextLong ==
  \E r \in {1} :
    \/ CliStart(r)
    \/ \E resp \in LongResponses :
         WithinCap(r, resp, MaxLongToolCalls) /\ EngineReply(r, resp)
    \/ ToolReturn(r, 800)
    \/ \E ok \in BOOLEAN : CompressDone(r, ok)
    \/ ExportDone(r, TRUE)

SpecLong == InitLong /\ [][NextLong]_vars

(***************************************************************************)
(* Command-line process: the conversation of one long run                  *)
(***************************************************************************)
\* what the engine answers: a final text, one tool call, two tool calls, or
\* a response cut at max_tokens, which adds no turn
TurnsResponses ==
  {[stop_reason |-> "end_turn", text |-> [text |-> "report", len |-> 120], blocks |-> <<>>],
   [stop_reason |-> "tool_use", text |-> NoText, blocks |-> <<ExtractCall>>],
   [stop_reason |-> "tool_use", text |-> NoText, blocks |-> <<SearchCall, EvalFail>>],
   [stop_reason |-> "max_tokens", text |-> NoText, blocks |-> <<>>]}

NextTurns ==
  \E r \in {1} :
    \/ CliStart(r)
    \/ \E resp \in TurnsResponses :
         WithinCap(r, resp, MaxTurnsToolCalls) /\ EngineReply(r, resp)
    \/ ToolReturn(r, 800)
    \/ \E ok \in BOOLEAN : CompressDone(r, ok)
    \/ ExportDone(r, TRUE)

SpecTurns == InitLong /\ [][NextTurns]_vars

(***************************************************************************)
(* The memory file over many sessions (memory.ts saveSession)              *)
(***************************************************************************)
\* the candidate lists of the sessions saved
CandidateLists ==
  {<<>>, <<Candidate(EvalPass)>>, <<Candidate(EvalFail)>>,
   <<Candidate(EvalPass), Candidate(EvalAgain)>>}

\* the sessions the call at time ts may be given
SessionsAt(ts) ==
  {[id |-> ts, timestamp |-> ts, task |-> "find sms provider",
    candidates |-> cs, bestMatch |-> BestMatch(cs), searchQueries |-> <<>>,
    conclusion |-> [kind |-> "final", text |-> "report", len |-> 120, n |-> 0]] :
     cs \in IF ts <= MaxVariedSaves THEN CandidateLists ELSE {<<>>}}

\* one call of saveSession: load, update, rewrite
SaveCall(session) ==
  /\ now <= MaxSaves
  /\ ~WriteThrows(memoryFile)
  /\ store' = SaveSession(LoadMemory(memoryFile, store), session)
  /\ memoryFile' = "valid"
  /\ now' = now + 1
  /\ UNCHANGED <<runs, sessionCandidates, sessionQueries, activeSessions, env>>

InitMemory ==
  /\ runs = [r \in Runs |-> IdleRun]
  /\ sessionCandidates = <<>>
  /\ sessionQueries = <<>>
  /\ store = EmptyStore
  /\ activeSessions = {}
  /\ now = 1
  /\ env = "configured"
  /\ memoryFile = "missing"

NextMemory == \E session \in SessionsAt(now) : SaveCall(session)

SpecMemory == InitMemory /\ [][NextMemory]_vars

(***************************************************************************)
(* The memory file: notes of a service evaluated again and again           *)
(***************************************************************************)
\* evaluations of one service that carry a rejection reason, free-text
\* notes, or both
EvalNoted == [EvalFail EXCEPT !.notes = "slow support"]
EvalRemark == [EvalFail EXCEPT !.rejection = Undefined, !.notes = "replied in a day"]

\* the candidate lists of the sessions saved
NotedLists ==
  {<<Candidate(EvalNoted)>>,
   <<Candidate(EvalNoted), Candidate(EvalRemark), Candidate(EvalNoted)>>,
   <<Candidate(EvalRemark), Candidate(EvalFail), Candidate(EvalNoted)>>}

NotedSessions(ts) ==
  {[id |-> ts, timestamp |-> ts, task |-> "find sms provider",
    candidates |-> cs, bestMatch |-> Undefined, searchQueries |-> <<>>,
    conclusion |-> [kind |-> "final", text |-> "report", len |-> 120, n |-> 0]] :
     cs \in NotedLists}

NextNotes ==
  \E session \in NotedSessions(now) : now <= MaxNoteSaves /\ SaveCall(session)

SpecNotes == InitMemory /\ [][NextNotes]_vars

(***************************************************************************)
(* Successive command-line processes over one memory file                  *)
(***************************************************************************)
\* the tasks given on the command line
RecallTasks == {"Argentina routes, provider?", "find sms provider", "Find SMS"}

\* the sessions other processes save at time ts
RecallSessions(ts) ==
  IF ts <= MaxRecallVaried
    THEN {[id |-> ts, timestamp |-> ts, task |-> "find sms provider",
           candidates |-> <<>>, bestMatch |-> Undefined, searchQueries |-> <<>>,
           conclusion |-> [kind |-> "final", text |-> "report", len |-> 120, n |-> 0]],
          [id |-> ts, timestamp |-> ts, task |-> "email hosting",
           candidates |-> <<Candidate(EvalFail)>>, bestMatch |-> Undefined,
           searchQueries |-> <<"sms argentina">>,
           conclusion |-> [kind |-> "final", text |-> "Argentina provider with direct routes",
                           len |-> 37, n |-> 0]],
          [id |-> ts, timestamp |-> ts, task |-> "email hosting",
           candidates |-> <<>>, bestMatch |-> Undefined, searchQueries |-> <<>>,
           conclusion |-> [kind |-> "max_iterations", text |-> "", len |-> 0, n |-> 0]]}
    ELSE {[id |-> ts, timestamp |-> ts, task |-> "argentina routes",
           candidates |-> <<>>, bestMatch |-> Undefined, searchQueries |-> <<>>,
           conclusion |-> [kind |-> "final", text |-> "report", len |-> 120, n |-> 0]]}

\* what the engine answers to a process of this family
RecallResponses ==
  {[stop_reason |-> "end_turn", text |-> [text |-> "report", len |-> 120], blocks |-> <<>>],
   [stop_reason |-> "tool_use", text |-> NoText, blocks |-> <<EvalNoVerdict>>]}

\* what a damaged file held when it was last a document
LeftOver == SaveSession(EmptyStore, CHOOSE s \in RecallSessions(0) : s.candidates # <<>>)

InitRecall ==
  /\ runs = [r \in Runs |-> IdleRun]
  /\ sessionCandidates = <<>>
  /\ sessionQueries = <<>>
  /\ memoryFile \in FileStates \ {"valid"}
  /\ store \in IF memoryFile \in {"corrupt", "unreadable"} THEN {EmptyStore, LeftOver}
                ELSE {EmptyStore}
  /\ activeSessions = {}
  /\ now = 1
  /\ env = "configured"

NextRecall ==
  \/ \E session \in RecallSessions(now) :
       /\ now <= MaxRecallSaves
       /\ \A q \in Runs : runs[q].pc \in {"idle", "done"}
       /\ SaveCall(session)
  \/ \E r \in {1, 2} :
       \/ \E task \in RecallTasks : CliStartNext(r, task)
       \/ \E resp \in RecallResponses :
            WithinCap(r, resp, MaxRecallToolCalls) /\ EngineReply(r, resp)
       \/ ExportDone(r, TRUE)

SpecRecall == InitRecall /\ [][NextRecall]_vars

(***************************************************************************)
(* Successive command-line processes: token accounting                     *)
(***************************************************************************)
\* response.usage of a response: the usual one, or twice as much
CostUsages == {Usage, [input_tokens |-> 2 * Usage.input_tokens,
                       output_tokens |-> 2 * Usage.output_tokens]}

\* what the engine answers: a final text, or a response cut at max_tokens
CostResponses ==
  {[stop_reason |-> "end_turn", text |-> [text |-> "report", len |-> 120], blocks |-> <<>>],
   [stop_reason |-> "max_tokens", text |-> NoText, blocks |-> <<>>]}

InitCost ==
  /\ runs = [r \in Runs |-> IdleRun]
  /\ sessionCandidates = <<>>
  /\ sessionQueries = <<>>
  /\ store = EmptyStore
  /\ activeSessions = {}
  /\ now = 1
  /\ env = "configured"
  /\ memoryFile = "missing"

NextCost ==
  \E r \in {1, 2} :
    \/ CliStartNext(r, "find sms provider")
    \/ \E resp \in CostResponses, usage \in CostUsages :
         /\ Len(runs[r].usages) < MaxVariedUsages \/ usage = Usage
         /\ EngineReplyUsing(r, resp, usage)
    \/ ExportDone(r, TRUE)

SpecCost == InitCost /\ [][NextCost]_vars

(***************************************************************************)
(* Command-line process: one run that uses every tool                      *)
(***************************************************************************)
\* raw output lengths around the cap of a tool result
GatewayLens == {800, MAX_RESULT, MAX_RESULT + 1, 9000}

GatewayResponses ==
  {[stop_reason |-> "end_turn", text |-> [text |-> "report", len |-> 120], blocks |-> <<>>]}
  \cup {[stop_reason |-> "tool_use", text |-> NoText, blocks |-> b] : b \in BlockSeqs(ToolCalls)}

InitGateway ==
  /\ runs = [r \in Runs |-> IdleRun]
  /\ sessionCandidates = <<>>
  /\ sessionQueries = <<>>
  /\ store = EmptyStore
  /\ activeSessions = {}
  /\ now = 1
  /\ env = "configured"
  /\ memoryFile = "missing"

NextGateway ==
  \E r \in {1} :
    \/ CliStart(r)
    \/ \E resp \in GatewayResponses :
         WithinCap(r, resp, MaxGatewayCalls) /\ EngineReply(r, resp)
    \/ \E len \in GatewayLens : ToolReturn(r, len)
    \/ \E failure \in {"no_api_key", "http_error", "unreachable", "gemini_error"} :
         ToolFailed(r, failure)
    \/ ExportDone(r, TRUE)

SpecGateway == InitGateway /\ [][NextGateway]_vars

(***************************************************************************)
(* Telegram front end (telegram.ts)                                        *)
(***************************************************************************)
\* the finally block of handleResearch
Finally(w) == [w EXCEPT !.active = @ \ {w.run.chat}, !.run.pc = "done"]

\* the catch block of handleResearch: the error text is sent, then finally
Catch(w, err) ==
  [w EXCEPT !.run.error = err, !.run.pc = "error_msg", !.run.sent = @ \cup {"error"}]

\* runResearchAgent was called for r and has not returned
InFlight(r) == runs[r].pc \in {"engine", "wait", "tool", "compress", "export"}

\* invocation records are used in order
Fresh(r) == runs[r].pc = "idle" /\ \A q \in Runs : q < r => runs[q].pc # "idle"

\* bot.on("message"): rejected while the chat is in activeSessions, otherwise
\* handleResearch runs up to `await bot.sendMessage("Разбираю критерии...")`
BotText(c, r) ==
  /\ Fresh(r)
  /\ c \notin activeSessions
  /\ Commit(r, [World(r) EXCEPT !.active = @ \cup {c},
                                !.run.chat = c, !.run.pc = "status"])

\* the status message was sent (or Telegram failed): parseRequest is called
StatusSent(r, ok) ==
  /\ runs[r].pc = "status"
  /\ Commit(r, IF ok THEN [World(r) EXCEPT !.run.pc = "parse"]
                     ELSE Catch(World(r), "telegram"))

\* parseRequest resolved (it never rejects): editMessageText is called
Parsed(r) ==
  /\ runs[r].pc = "parse"
  /\ Commit(r, [World(r) EXCEPT !.run.pc = "edit"])

\* the criteria message was edited: runResearchAgent starts
Edited(r, ok) ==
  /\ runs[r].pc = "edit"
  /\ Commit(r, IF ok THEN StartRun(World(r), "find sms provider")
                     ELSE Catch(World(r), "telegram"))

\* bot.onText(/stop): only the chat's mark is removed
BotStop(c) ==
  /\ c \in activeSessions
  /\ activeSessions' = activeSessions \ {c}
  /\ runs' = [r \in Runs |->
                IF runs[r].chat = c /\ InFlight(r)
                  THEN [runs[r] EXCEPT !.stopped = TRUE]
                  ELSE runs[r]]
  /\ UNCHANGED <<sessionCandidates, sessionQueries, store, now, env, memoryFile>>

\* the answer chunk was delivered (a failed send is retried without
\* Markdown and never raises): the summary is sent
AnswerSent(r) ==
  /\ runs[r].pc = "send_answer"
  /\ Commit(r, [World(r) EXCEPT !.run.pc = "send_summary",
                                !.run.sent = @ \cup {"summary"}])

\* the summary was delivered, or Telegram failed and the catch block runs
SummarySent(r, ok) ==
  /\ runs[r].pc = "send_summary"
  /\ Commit(r, IF ok THEN Finally(World(r)) ELSE Catch(World(r), "telegram"))

\* the error text of the catch block was sent (or not): finally
ErrorSent(r) ==
  /\ runs[r].pc = "error_msg"
  /\ Commit(r, Finally(World(r)))

\* what the engine answers in the bot process: finish, or one tool call
BotCalls == {SearchCall, EvalPass}

BotResponses ==
  {[stop_reason |-> "end_turn", text |-> [text |-> "report", len |-> 120], blocks |-> <<>>]}
  \cup {[stop_reason |-> "tool_use", text |-> NoText, blocks |-> <<c>>] : c \in BotCalls}

InitBot ==
  /\ runs = [r \in Runs |-> IdleRun]
  /\ sessionCandidates = <<>>
  /\ sessionQueries = <<>>
  /\ store = EmptyStore
  /\ activeSessions = {}
  /\ now = 1
  /\ env = "configured"
  /\ memoryFile = "missing"

NextBot ==
  \/ \E c \in Chats : BotStop(c)
  \/ \E r \in Runs :
       \/ \E c \in Chats : BotText(c, r)
       \/ \E ok \in BOOLEAN : StatusSent(r, ok)
       \/ Parsed(r)
       \/ \E ok \in BOOLEAN : Edited(r, ok)
       \/ \E resp \in BotResponses :
            WithinCap(r, resp, MaxBotToolCalls) /\ EngineReply(r, resp)
       \/ EngineFailure(r, 500)
       \/ \E len \in {800} : ToolReturn(r, len)
       \/ \E ok \in BOOLEAN : ExportDone(r, ok)
       \/ AnswerSent(r)
       \/ \E ok \in BOOLEAN : SummarySent(r, ok)
       \/ ErrorSent(r)

SpecBot == InitBot /\ [][NextBot]_vars

(***************************************************************************)
(* Telegram front end: requests served one after another                   *)
(***************************************************************************)
\* the criteria message was edited while no runResearchAgent call of the
\* process is in flight: the run that starts overlaps no other
EditedAlone(r, ok) ==
  /\ \A q \in Runs : ~InFlight(q)
  /\ Edited(r, ok)

NextSerial ==
  \/ \E c \in {1, 2} : BotStop(c)
  \/ \E r \in {1, 2} :
       \/ \E c \in {1, 2} : BotText(c, r)
       \/ StatusSent(r, TRUE)
       \/ Parsed(r)
       \/ \E ok \in BOOLEAN : EditedAlone(r, ok)
       \/ \E resp \in BotResponses :
            WithinCap(r, resp, MaxSerialToolCalls) /\ EngineReply(r, resp)
       \/ EngineFailure(r, 500)
       \/ ToolReturn(r, 800)
       \/ ExportDone(r, TRUE)
       \/ AnswerSent(r)
       \/ SummarySent(r, TRUE)
       \/ ErrorSent(r)

SpecSerial == InitBot /\ [][NextSerial]_vars

(***************************************************************************)
(* Telegram front end: two chats whose runs overlap                        *)
(***************************************************************************)
\* what the engine answers: finish, or one evaluate call
OverlapResponses ==
  {[stop_reason |-> "end_turn", text |-> [text |-> "report", len |-> 120], blocks |-> <<>>],
   [stop_reason |-> "tool_use", text |-> NoText, blocks |-> <<EvalPass>>]}

NextOverlap ==
  \E r \in {1, 2} :
    \/ \E c \in {1, 2} : BotText(c, r)
    \/ StatusSent(r, TRUE)
    \/ Parsed(r)
    \/ Edited(r, TRUE)
    \/ \E resp \in OverlapResponses :
         WithinCap(r, resp, MaxOverlapToolCalls) /\ EngineReply(r, resp)
    \/ \E ok \in BOOLEAN : ExportDone(r, ok)
    \/ AnswerSent(r)
    \/ SummarySent(r, TRUE)

SpecOverlap == InitBot /\ [][NextOverlap]_vars

(***************************************************************************)
(* Properties                                                              *)
(***************************************************************************)
InLoop(run) == run.pc \in {"engine", "wait", "tool", "compress"}

\* position of a run inside one attempt: the compressor, the engine call,
\* then the backoff wait or the tool blocks in order
Pos(run) ==
  CASE run.pc = "compress" -> 0
    [] run.pc = "engine" -> 1
    [] run.pc = "wait" -> 2
    [] run.pc = "tool" -> 2 + run.idx
    [] OTHER -> 0

\* lexicographic order on (iterations, attempt, position)
Before(a, b) ==
  \/ a.iterations < b.iterations
  \/ a.iterations = b.iterations /\ a.attempt < b.attempt
  \/ a.iterations = b.iterations /\ a.attempt = b.attempt /\ Pos(a) < Pos(b)

LoopPos(run) == <<run.pc, run.iterations, run.attempt, run.idx>>

\* the session assembled by run r is in the store
Persisted(r) ==
  /\ runs[r].session # <<>>
  /\ \E i \in 1..Len(store.sessions) : store.sessions[i] = runs[r].session[1]

\* some tool-results turn of the conversation holds an error-flagged result
HasErrorResult(messages) ==
  \E i \in 1..Len(messages) :
    /\ messages[i].kind = "tool_result"
    /\ \E j \in 1..Len(messages[i].items) : messages[i].items[j].is_error

\* C1: a run makes at most MAX_ITERATIONS iterations and at most
\* MAX_ATTEMPTS attempts in each; every step of a run inside the loop moves it
\* strictly forward in (iterations, attempt, position) or out of the loop, so
\* the loop cannot run forever; with engine responses only (no engine failure)
\* it is left in FINISHED or, at exactly MAX_ITERATIONS iterations, EXHAUSTED.
C1_LoopTerminates ==
  /\ [](\A r \in Runs :
          /\ runs[r].iterations <= MAX_ITERATIONS
          /\ runs[r].attempt < MAX_ATTEMPTS
          /\ runs[r].idx <= Len(runs[r].blocks) + 1
          /\ (runs[r].phase = "EXHAUSTED" => runs[r].iterations = MAX_ITERATIONS)
          /\ (/\ runs[r].phase # "NONE"
              /\ ~InLoop(runs[r])
              /\ runs[r].error \notin {"rate_limit", "engine_error"}
              => runs[r].phase \in {"FINISHED", "EXHAUSTED"}))
  /\ [][\A r \in Runs :
          InLoop(runs[r]) /\ LoopPos(runs'[r]) # LoopPos(runs[r])
            => ~InLoop(runs'[r]) \/ Before(runs[r], runs'[r])]_vars

C1_Witness ==
  \E r \in Runs :
    /\ runs[r].phase = "EXHAUSTED"
    /\ runs[r].iterations = MAX_ITERATIONS
    /\ runs[r].toolCallCount > 0
    /\ runs[r].pc = "done"

\* C2: a run is in FINISHED or EXHAUSTED exactly when it has called
\* saveSession, it calls it once, and no later step of the run changes the
\* store or the session record it handed over.
C2_SavedExactlyOnce ==
  /\ [](\A r \in Runs :
          /\ runs[r].saveCalls <= 1
          /\ (runs[r].phase \in {"FINISHED", "EXHAUSTED"} <=> runs[r].saveCalls = 1))
  /\ [][\A r \in Runs :
          runs[r].saveCalls = 1 /\ runs'[r] # runs[r]
            => /\ store' = store
               /\ runs'[r].session = runs[r].session
               /\ runs'[r].saveCalls = 1]_vars

C2_Witness ==
  \E r \in Runs :
    /\ runs[r].phase = "FINISHED"
    /\ runs[r].saveCalls = 1
    /\ runs[r].pc = "done"
    /\ runs[r].result # <<>>
    /\ Persisted(r)

\* C3: the claim as stated: a run that got an error-flagged tool result and
\* later a finish-intent response has persisted its session.
C3_ToolFailureContained ==
  \A r \in Runs :
    HasErrorResult(runs[r].messages) /\ runs[r].phase = "FINISHED" => Persisted(r)

\* C4: at most MAX_ATTEMPTS attempts per iteration; the waits of an iteration
\* are 15, 30, 45, 60 in this order (strictly increasing, never above the
\* cap), one per rate-limited attempt; a wait never changes the iteration
\* count; the run ends with the rate-limit error only on the 5th attempt.
C4_BoundedBackoff ==
  /\ [](\A r \in Runs :
          /\ runs[r].attempt < MAX_ATTEMPTS
          /\ (runs[r].pc = "wait" => runs[r].attempt < MAX_ATTEMPTS - 1)
          /\ Len(runs[r].waits) = runs[r].attempt + (IF runs[r].pc = "wait" THEN 1 ELSE 0)
          /\ \A i \in 1..Len(runs[r].waits) :
               /\ runs[r].waits[i] <= BACKOFF_CAP
               /\ runs[r].waits[i] = <<15, 30, 45, 60>>[i]
               /\ (i > 1 => runs[r].waits[i - 1] < runs[r].waits[i])
          /\ (runs[r].error = "rate_limit" => runs[r].attempt = MAX_ATTEMPTS - 1))
  /\ [][\A r \in Runs :
          runs[r].pc = "wait" \/ runs'[r].pc = "wait"
            => runs'[r].iterations = runs[r].iterations]_vars

C4_Witness ==
  \E r \in Runs :
    /\ runs[r].error = "rate_limit"
    /\ runs[r].waits = <<15, 30, 45, 60>>
    /\ runs[r].iterations > 1

\* C5: only a 429 leads to a wait; a run ended by an engine failure has
\* never called saveSession or exportToSheets and returns no result, and the
\* store changes only in a step in which some run calls saveSession.
C5_FatalNotPersisted ==
  /\ [](\A r \in Runs :
          /\ (runs[r].pc = "wait" => runs[r].lastStatus = 429)
          /\ (runs[r].error = "engine_error"
                => runs[r].lastStatus # 429 /\ Len(runs[r].waits) = runs[r].attempt)
          /\ (runs[r].error \in {"engine_error", "rate_limit"}
                => /\ runs[r].saveCalls = 0
                   /\ runs[r].exportCalls = 0
                   /\ runs[r].result = <<>>
                   /\ ~Persisted(r)))
  /\ [][store' # store
          => \E r \in Runs : runs'[r].saveCalls = runs[r].saveCalls + 1]_vars

C5_Witness ==
  \E r \in Runs :
    /\ runs[r].error = "engine_error"
    /\ runs[r].toolCallCount > 0
    /\ runs[r].attempt > 0
    /\ runs[r].pc = "done"

\* C6: the claim as stated: while a run is in its loop the accumulators hold
\* exactly what its own tool calls produced, and the session it persists
\* holds exactly those candidates and queries.
C6_RunsIndependent ==
  \A r \in Runs :
    /\ (InLoop(runs[r])
          => /\ sessionCandidates = runs[r].ownCandidates
             /\ sessionQueries = runs[r].ownQueries)
    /\ (runs[r].session # <<>>
          => /\ runs[r].session[1].candidates = runs[r].ownCandidates
             /\ runs[r].session[1].searchQueries = runs[r].ownQueries)

\* a step of run r issues an engine call or a tool invocation
IssuesCall(r) ==
  \/ /\ runs'[r].pc = "engine"
     /\ <<runs'[r].iterations, runs'[r].attempt>> # <<runs[r].iterations, runs[r].attempt>>
  \/ runs'[r].toolCallCount > runs[r].toolCallCount

\* C7: the claim as stated: once a run is marked stopped it issues no
\* further engine call and no further tool invocation.
C7_StopHaltsLoop == [][\A r \in Runs : runs[r].stopped => ~IssuesCall(r)]_vars

\* C8: the claim as stated: the answer and the summary of a run that was
\* stopped while in flight are never sent.
C8_StoppedNeverSent ==
  \A r \in Runs : runs[r].stopped => runs[r].sent \cap {"answer", "summary"} = {}

\* C9: the claim as stated: a session persisted by a run that had been
\* stopped is not an ordinary finished (or exhausted) record.
C9_StoppedMarkedCancelled ==
  \A r \in Runs :
    runs[r].stoppedAtSave /\ Persisted(r)
      => runs[r].session[1].conclusion.kind \notin {"final", "max_iterations"}

\* C10: the claim as stated: after a failed export the run still returns
\* its result, without export reference, and its session is persisted.
C10_ExportBestEffort ==
  \A r \in Runs :
    runs[r].exportOutcome \in {"empty", "threw"} /\ runs[r].pc = "done"
      => /\ runs[r].result # <<>>
         /\ runs[r].result[1].sheetUrl = Undefined
         /\ Persisted(r)

\* C11: the claim as stated: the session a run hands to saveSession, on
\* FINISHED and on EXHAUSTED alike, names as bestMatch the first candidate in
\* evaluation order whose verdict is "pass", and has no bestMatch only when
\* no candidate has that verdict.
C11_BestMatchFirstPass ==
  \A r \in Runs :
    runs[r].session # <<>> =>
      LET s == runs[r].session[1]
          passing == {i \in 1..Len(s.candidates) : s.candidates[i].verdict = "pass"}
      IN /\ (s.bestMatch = Undefined <=> passing = {})
         /\ \A i \in passing :
              (\A j \in passing : i <= j) => s.bestMatch = s.candidates[i].name

\* C12: the claim as stated: a run whose export succeeded with a non-empty
\* reference returns a result that carries this reference, on FINISHED and on
\* EXHAUSTED alike.
C12_ResultCarriesExport ==
  \A r \in Runs :
    runs[r].exportOutcome = "url" /\ runs[r].result # <<>>
      => runs[r].result[1].sheetUrl = "sheet-url"

\* the compressHistory call of the current iteration of run r
CompressCall(r) == runs[r].compress

\* C13: compressHistory has been invoked once at each of the iterations 4, 7
\* and 10 the run has entered and at no other iteration (never the first); the
\* run waits for the summarizer only at these iterations; and whenever the
\* engine is called in such an iteration the conversation is the value
\* compressHistory returned.
C13_CompressAtBoundaries ==
  /\ [](\A r \in Runs :
          /\ runs[r].compressCalls
               = SelectSeq(<<4, 7, 10>>, LAMBDA i : i <= runs[r].iterations)
          /\ (runs[r].pc = "compress" => runs[r].iterations \in {4, 7, 10})
          /\ (runs[r].iterations \notin {4, 7, 10} => CompressCall(r) = NoCompress)
          /\ (runs[r].pc = "engine" /\ runs[r].iterations \in {4, 7, 10}
                => /\ CompressCall(r).summarizer \in {"none", "ok", "failed"}
                   /\ runs[r].messages = CompressCall(r).output))
  /\ [][\A r \in Runs :
          runs[r].pc = "compress" /\ runs'[r] # runs[r]
            => /\ runs'[r].pc = "engine"
               /\ runs'[r].iterations = runs[r].iterations
               /\ runs'[r].messages = runs'[r].compress.output]_vars

C13_Witness ==
  \E r \in Runs :
    /\ runs[r].compressCalls = <<4, 7, 10>>
    /\ runs[r].pc = "engine"
    /\ CompressCall(r).summarizer = "ok"
    /\ Len(runs[r].messages) < Len(CompressCall(r).input)

\* C14: the claim as stated: compressHistory is invoked only once every 5
\* iterations (at iterations 6, 11, ...).
C14_CompressEveryFive ==
  \A r \in Runs :
    \A i \in 1..Len(runs[r].compressCalls) : (runs[r].compressCalls[i] - 1) % 5 = 0

\* C15: a compressHistory call whose argument has fewer than 6 turns, or
\* fewer than 4 turns between the first and the last 4, returns its argument
\* and never waits for the summarizer.
C15_ShortHistoryUnchanged ==
  \A r \in Runs :
    LET c == CompressCall(r)
    IN c.input # <<>> /\ (Len(c.input) < 6 \/ Len(c.input) - 1 - 4 < 4)
         => /\ c.summarizer = "none"
            /\ c.output = c.input
            /\ runs[r].pc # "compress"
            /\ (runs[r].pc = "engine" => runs[r].messages = c.input)

C15_Witness ==
  \E r \in Runs :
    /\ runs[r].iterations = 7
    /\ runs[r].pc = "engine"
    /\ Len(CompressCall(r).input) = 7
    /\ CompressCall(r).summarizer = "none"
    /\ runs[r].messages = CompressCall(r).input

C17_SummarizerFailureContained ==
  /\ [](\A r \in Runs :
          /\ runs[r].error # "compress_error"
          /\ (CompressCall(r).summarizer = "failed"
                => /\ CompressCall(r).output = CompressCall(r).input
                   /\ (runs[r].pc = "engine" => runs[r].messages = CompressCall(r).input)))
  /\ [][\A r \in Runs :
          runs[r].pc = "compress" /\ runs'[r].compress.summarizer = "failed"
            => /\ runs'[r].pc = "engine"
               /\ runs'[r].iterations = runs[r].iterations
               /\ runs'[r].messages = runs[r].messages]_vars

C17_Witness ==
  \E r \in Runs :
    /\ CompressCall(r).summarizer = "failed"
    /\ runs[r].phase = "FINISHED"
    /\ runs[r].result # <<>>
    /\ runs[r].error = ""

\* the verdicts and rejection reasons the turns of a conversation state
StatedFacts(messages) ==
  UNION {IF messages[i].kind = "tool_use"
           THEN UNION {IF messages[i].items[j].name = "evaluate"
                         THEN (IF messages[i].items[j].verdict # Undefined
                                 THEN {<<messages[i].items[j].cname, "verdict",
                                         messages[i].items[j].verdict>>}
                                 ELSE {})
                              \cup (IF messages[i].items[j].rejection # Undefined
                                      THEN {<<messages[i].items[j].cname, "rejection",
                                              messages[i].items[j].rejection>>}
                                      ELSE {})
                         ELSE {} : j \in 1..Len(messages[i].items)}
           ELSE messages[i].facts : i \in 1..Len(messages)}

\* C18: the claim as stated: every verdict and rejection reason stated in
\* the turns before a compression is stated in the turns after it.
C18_CompressionKeepsFacts ==
  \A r \in Runs :
    CompressCall(r).summarizer = "ok"
      => StatedFacts(CompressCall(r).input) \subseteq StatedFacts(CompressCall(r).output)

\* C19: after n saveSession calls the store holds the last min(n, 50)
\* sessions saved, in save order: never more than 50, and from the 51st call
\* on the oldest ones are gone.
C19_KeepsLastFifty ==
  LET n == now - 1
      kept == IF n < 50 THEN n ELSE 50
  IN /\ Len(store.sessions) <= 50
     /\ Len(store.sessions) = kept
     /\ \A i \in 1..Len(store.sessions) : store.sessions[i].id = n - kept + i

C19_Witness ==
  /\ now - 1 = 51
  /\ Len(store.sessions) = 50
  /\ store.sessions[1].id = 2
  /\ store.sessions[50].id = 51

\* the spellings of one service name, equal up to letter case and
\* surrounding whitespace
Spellings == {"Acme SMS", " ACME sms ", "acme sms"}

\* the session saved last evaluates one service twice, under two spellings
SavedTwice ==
  /\ store.sessions # <<>>
  /\ LET cs == store.sessions[Len(store.sessions)].candidates
     IN /\ Len(cs) = 2
        /\ cs[1].name \in Spellings /\ cs[2].name \in Spellings
        /\ cs[1].name # cs[2].name

\* C20: the known services never hold two entries for spellings of one
\* name; after a session that evaluates a service twice, its single entry holds
\* for every criterion of the second evaluation the value of the second
\* evaluation, and no other fact key.
C20_UpsertPerName ==
  /\ Cardinality(DOMAIN store.knownServices \cap Spellings) <= 1
  /\ SavedTwice =>
       LET cs == store.sessions[Len(store.sessions)].candidates
       IN \E k \in DOMAIN store.knownServices \cap Spellings :
            /\ DOMAIN store.knownServices[k].facts
                 = {cs[i].hardResults.items[j].criterion :
                      i \in 1..2, j \in 1..1}
            /\ \A j \in 1..Len(cs[2].hardResults.items) :
                 LET hr == cs[2].hardResults.items[j]
                 IN store.knownServices[k].facts[hr.criterion]
                      = [mark |-> IF hr.passed THEN "YES" ELSE "NO", text |-> hr.evidence]
            /\ store.knownServices[k].verdict = cs[2].verdict

C20_Witness ==
  /\ SavedTwice
  /\ "acme sms" \in DOMAIN store.knownServices
  /\ store.knownServices["acme sms"].facts["coverage"].mark = "NO"

\* the run has called getMemoryContext
Recalled(r) == runs[r].task # ""

\* the text that is one line reading str
OneLine(str) == <<[kind |-> "heading", text |-> str]>>

\* C21: the claim as stated: getMemoryContext returns "No prior research
\* history." exactly when the store has no sessions and no known services,
\* the other fixed string exactly when the store is not empty but no session
\* scores above 0 and no known service shares a keyword with the task, and a
\* rendered context, different from both, in every other case.
C21_ContextSentinels ==
  \A r \in Runs :
    Recalled(r) =>
      LET st == runs[r].memoryAtStart
          kw == ExtractKeywords(Words(runs[r].task))
          empty == st.sessions = <<>> /\ DOMAIN st.knownServices = {}
          nothing == /\ \A i \in 1..Len(st.sessions) : Score(kw, st.sessions[i]) = 0
                     /\ RelevantServices(kw, st.knownServices) = {}
          ctx == runs[r].memoryContext
      IN /\ runs[r].error # "context_TypeError"
         /\ ctx # <<>>
         /\ (ctx = OneLine(NO_HISTORY) <=> empty)
         /\ (ctx = OneLine(NO_RELEVANT) <=> ~empty /\ nothing)
         /\ (~empty /\ ~nothing =>
               /\ Len(ctx) >= 2
               /\ ctx[1].text \in {"## RELEVANT PAST RESEARCH", "## KNOWN SERVICES"})
         /\ (runs[r].memoryLoaded <=> ~empty /\ ~nothing)

\* the session blocks of a context, in the order they are rendered
RenderedSessions(ctx) == SelectSeq(ctx, LAMBDA line : line.kind = "session")

\* where the store of run r held the session of that id when the run began
StoredAt(r, id) ==
  CHOOSE i \in 1..Len(runs[r].memoryAtStart.sessions) :
    runs[r].memoryAtStart.sessions[i].id = id

\* the score of the stored session i for the task of run r
ScoreAt(r, i) ==
  Score(ExtractKeywords(Words(runs[r].task)), runs[r].memoryAtStart.sessions[i])

\* C22: the sessions a context renders all score above 0 for the task, are
\* at most five, stand in order of decreasing score with sessions of equal
\* score in their stored order, and no stored session left out scores higher
\* than a rendered one; fewer than five are rendered only when no other
\* session scores above 0.
C22_RendersBestSessions ==
  \A r \in Runs :
    (Recalled(r) /\ runs[r].memoryContext # <<>>) =>
      LET stored == runs[r].memoryAtStart.sessions
          R == RenderedSessions(runs[r].memoryContext)
          at(a) == StoredAt(r, R[a].id)
          shown == {at(a) : a \in 1..Len(R)}
      IN /\ Len(R) <= MAX_CONTEXT_SESSIONS
         /\ \A a \in 1..Len(R) :
              /\ \E i \in 1..Len(stored) : stored[i].id = R[a].id
              /\ ScoreAt(r, at(a)) > 0
         /\ \A a, b \in 1..Len(R) :
              a < b => \/ ScoreAt(r, at(a)) > ScoreAt(r, at(b))
                       \/ ScoreAt(r, at(a)) = ScoreAt(r, at(b)) /\ at(a) < at(b)
         /\ \A i \in (1..Len(stored)) \ shown :
              /\ \A a \in 1..Len(R) : ScoreAt(r, i) <= ScoreAt(r, at(a))
              /\ ScoreAt(r, i) > 0 => Len(R) = MAX_CONTEXT_SESSIONS

\* a run began over a store with more than five sessions that score above 0:
\* five are rendered, two of them tie, and a later stored session is rendered
\* ahead of an earlier one
C22_Witness ==
  \E r \in Runs :
    /\ Recalled(r)
    /\ LET stored == runs[r].memoryAtStart.sessions
           R == RenderedSessions(runs[r].memoryContext)
       IN /\ Len(R) = MAX_CONTEXT_SESSIONS
          /\ Cardinality({i \in 1..Len(stored) : ScoreAt(r, i) > 0}) > MAX_CONTEXT_SESSIONS
          /\ \E a, b \in 1..Len(R) :
               a < b /\ ScoreAt(r, StoredAt(r, R[a].id)) = ScoreAt(r, StoredAt(r, R[b].id))
          /\ \E a, b \in 1..Len(R) :
               a < b /\ StoredAt(r, R[a].id) > StoredAt(r, R[b].id)

\* how many keywords of the task of run r the task of a session shares
TaskShare(r, session) ==
  LET taskWords == ExtractKeywords(Words(runs[r].task))
      kw == ExtractKeywords(Words(session.task))
  IN Cardinality({i \in 1..Len(taskWords) : \E j \in 1..Len(kw) : kw[j] = taskWords[i]})

\* C23: the claim as stated: when the session added last to the store has a
\* task that shares more keywords with the task of the run than the task of
\* any session stored before it, it ranks at or above the session that ranked
\* first before it was added: its score is not lower, so a context that
\* renders that session renders the new one too.
C23_RankingMonotonic ==
  \A r \in Runs :
    (Recalled(r) /\ runs[r].memoryContext # <<>>) =>
      LET stored == runs[r].memoryAtStart.sessions
          n == Len(stored)
          before == Relevant(ExtractKeywords(Words(runs[r].task)), SubSeq(stored, 1, n - 1))
          R == RenderedSessions(runs[r].memoryContext)
      IN (/\ n >= 2
          /\ \A i \in 1..(n - 1) : TaskShare(r, stored[n]) > TaskShare(r, stored[i])
          /\ before # <<>>)
         => /\ ScoreAt(r, n) >= before[1].score
            /\ (\E b \in 1..Len(R) : R[b].id = before[1].session.id)
                 => \E a \in 1..Len(R) : R[a].id = stored[n].id

\* how many keywords of the task of run r occur in the task or in the
\* conclusion of a session
Overlap(r, session) ==
  LET taskWords == ExtractKeywords(Words(runs[r].task))
      kw == ExtractKeywords(Words(session.task) \o ConclusionWords(session.conclusion))
  IN Cardinality({i \in 1..Len(taskWords) : \E j \in 1..Len(kw) : kw[j] = taskWords[i]})

\* C23, amended: when the task and the conclusion of the session added last
\* together share more keywords with the task of the run than those of any
\* session stored before it, the context renders the new session first.
C23_HighestOverlapRanksFirst ==
  \A r \in Runs :
    (Recalled(r) /\ runs[r].memoryContext # <<>>) =>
      LET stored == runs[r].memoryAtStart.sessions
          n == Len(stored)
          R == RenderedSessions(runs[r].memoryContext)
      IN (/\ n >= 2
          /\ \A i \in 1..(n - 1) : Overlap(r, stored[n]) > Overlap(r, stored[i]))
         => /\ R # <<>>
            /\ R[1].id = stored[n].id

\* a run began after a session was added that overlaps with its task more
\* than the sessions stored before it, one of which was rendered first until
\* then and is still rendered
C23_Witness ==
  \E r \in Runs :
    /\ Recalled(r)
    /\ LET stored == runs[r].memoryAtStart.sessions
           n == Len(stored)
           R == RenderedSessions(runs[r].memoryContext)
       IN /\ n >= 2
          /\ \A i \in 1..(n - 1) : Overlap(r, stored[n]) > Overlap(r, stored[i])
          /\ Len(R) >= 2
          /\ R[1].id = stored[n].id
          /\ R[2].id = Relevant(ExtractKeywords(Words(runs[r].task)),
                                SubSeq(stored, 1, n - 1))[1].session.id

\* C24: the claim as stated: a run that begins while the memory file is
\* missing, unreadable or not parseable gets the empty-store sentinel as its
\* memory context, and when it has ended it has returned a result and its
\* session is in the memory document.
C24_DamagedFileAsEmpty ==
  \A r \in Runs :
    (Recalled(r) /\ runs[r].fileAtStart # "valid") =>
      /\ runs[r].memoryContext = OneLine(NO_HISTORY)
      /\ runs[r].pc = "done" =>
           /\ runs[r].error = ""
           /\ runs[r].result # <<>>
           /\ memoryFile = "valid"
           /\ \E i \in 1..Len(store.sessions) : store.sessions[i] = runs[r].session[1]

RECURSIVE SumInput(_)
SumInput(usages) ==
  IF usages = <<>> THEN 0 ELSE Head(usages).input_tokens + SumInput(Tail(usages))

RECURSIVE SumOutput(_)
SumOutput(usages) ==
  IF usages = <<>> THEN 0 ELSE Head(usages).output_tokens + SumOutput(Tail(usages))

\* C25: the token counts of a run are the sums of the usage of the responses
\* it received; the result of a run, FINISHED or EXHAUSTED, reports these
\* counts and an estimate (in millionths of a dollar) of 3 per input token
\* plus 15 per output token, whatever else the run did; and the estimate for
\* twice the counts is twice the estimate.
C25_CostFromCounts ==
  \A r \in Runs :
    /\ runs[r].totalInputTokens = SumInput(runs[r].usages)
    /\ runs[r].totalOutputTokens = SumOutput(runs[r].usages)
    /\ runs[r].result # <<>> =>
         LET c == runs[r].result[1].cost
         IN /\ runs[r].phase \in {"FINISHED", "EXHAUSTED"}
            /\ c.inputTokens = SumInput(runs[r].usages)
            /\ c.outputTokens = SumOutput(runs[r].usages)
            /\ c.estimatedUsd = 3 * c.inputTokens + 15 * c.outputTokens
            /\ Cost(2 * c.inputTokens, 2 * c.outputTokens) = 2 * c.estimatedUsd

\* a FINISHED and an EXHAUSTED run that received different numbers of
\* responses of different usage have returned the same counts and the same
\* estimate
C25_Witness ==
  \E r, q \in Runs :
    /\ runs[r].result # <<>> /\ runs[r].phase = "FINISHED"
    /\ runs[q].result # <<>> /\ runs[q].phase = "EXHAUSTED"
    /\ Len(runs[r].usages) < Len(runs[q].usages)
    /\ \E i \in 1..Len(runs[r].usages) : runs[r].usages[i] # Usage
    /\ runs[r].result[1].cost = runs[q].result[1].cost
    /\ runs[r].result[1].cost.estimatedUsd > 0

\* the tool results of run r: those of the tool-results turns of its
\* conversation and those collected for the turn being assembled
ResultsOf(r) ==
  UNION {{runs[r].messages[i].items[j] : j \in 1..Len(runs[r].messages[i].items)} :
           i \in {k \in 1..Len(runs[r].messages) : runs[r].messages[k].kind = "tool_result"}}
  \cup {runs[r].toolResults[j] : j \in 1..Len(runs[r].toolResults)}

\* C26: every tool result that is not error-flagged holds at most 4000
\* characters of the raw output of its call: a raw output of more than 4000
\* characters is cut to 4000 and followed by the truncation notice, a raw
\* output of 4000 characters or fewer is appended whole, without a notice.
C26_ResultCapped ==
  \A r \in Runs : \A res \in ResultsOf(r) :
    ~res.is_error =>
      /\ res.content.len <= MAX_RESULT
      /\ res.content.raw > MAX_RESULT => res.content.len = MAX_RESULT /\ res.content.notice
      /\ res.content.raw <= MAX_RESULT => res.content.len = res.content.raw /\ ~res.content.notice

\* the conversation holds the result of a raw output of exactly 4000
\* characters, whole, and of one of 4001 characters, cut
C26_Witness ==
  \E r \in Runs : \E cut, whole \in ResultsOf(r) :
    /\ runs[r].toolResults = <<>>
    /\ ~cut.is_error /\ cut.content.raw = MAX_RESULT + 1
    /\ cut.content.len = MAX_RESULT /\ cut.content.notice
    /\ ~whole.is_error /\ whole.content.raw = MAX_RESULT
    /\ whole.content.len = MAX_RESULT /\ ~whole.content.notice

\* the tool calls the engine requested in the conversation, in order
RECURSIVE Requested(_)
Requested(messages) ==
  IF messages = <<>> THEN <<>>
  ELSE (IF Head(messages).kind = "tool_use" THEN Head(messages).items ELSE <<>>)
       \o Requested(Tail(messages))

\* C27: the claim as stated: the result of a run reports as toolCalls the
\* number of tool invocations the engine requested in that run and as
\* candidatesEvaluated the number of its evaluate invocations; the session it
\* persisted holds exactly the candidates of these invocations, one each.
C27_CountsMatchInvocations ==
  \A r \in Runs :
    runs[r].result # <<>> =>
      LET calls == Requested(runs[r].messages)
          evals == SelectSeq(calls, LAMBDA tc : tc.name = "evaluate")
      IN /\ runs[r].result[1].toolCalls = Len(calls)
         /\ runs[r].result[1].candidatesEvaluated = Len(evals)
         /\ runs[r].session[1].candidates = [j \in 1..Len(evals) |-> Candidate(evals[j])]

SearchAndPageTools == {"google_search", "discover", "extract_page", "read_page"}

\* no result of a search or page call of run r is error-flagged
NoSearchOrPageError(r) ==
  /\ \A i \in 2..Len(runs[r].messages) :
       runs[r].messages[i].kind = "tool_result" =>
         \A j \in 1..Len(runs[r].messages[i].items) :
           runs[r].messages[i - 1].items[j].name \in SearchAndPageTools
             => ~runs[r].messages[i].items[j].is_error
  /\ \A j \in 1..Len(runs[r].toolResults) :
       runs[r].blocks[j].name \in SearchAndPageTools => ~runs[r].toolResults[j].is_error

\* C28: a search or page call never yields an error-flagged result, whether
\* its collaborators answered or failed, and the step in which such a call
\* returns leaves the run iterating, without an error.
C28_SearchAndPageToolsNeverRaise ==
  /\ [](\A r \in Runs : NoSearchOrPageError(r))
  /\ [][\A r \in Runs :
          (runs[r].pc = "tool" /\ runs'[r] # runs[r]) =>
            /\ runs'[r].error = ""
            /\ runs'[r].phase = "ITERATING"
            /\ runs'[r].pc \in {"tool", "engine"}]_vars

\* the run goes on after a search without API key and an extraction from an
\* unreachable page both came back as text
C28_Witness ==
  \E r \in Runs :
    /\ runs[r].pc = "engine"
    /\ \E a, b \in ResultsOf(r) :
         /\ ~a.is_error /\ a.content.detail = "ERROR: SERPER_API_KEY not set"
         /\ ~b.is_error /\ b.content.detail = "Could not access"

\* run r is iterating before and after the step
StaysIterating(r) == runs[r].phase = "ITERATING" /\ runs'[r].phase = "ITERATING"

\* run r leaves the loop in the step, through saveSession
EndsInSave(r) ==
  /\ runs[r].phase = "ITERATING"
  /\ runs'[r].phase \in {"FINISHED", "EXHAUSTED"}
  /\ runs'[r].saveCalls = runs[r].saveCalls + 1

RequestedBefore(messages, i) == Len(Requested(SubSeq(messages, 1, i - 1)))

\* result res answers call tc
Answers(res, tc) ==
  CASE tc.name \in SearchAndPageTools -> res.content.kind = "text"
    [] tc.name = "evaluate" ->
         \/ res.content.kind = "report" /\ res.content.detail = tc.cname
         \/ res.is_error /\ res.content.detail = "TypeError"
    [] OTHER -> res.is_error /\ res.content.detail = "Unknown tool"

\* C30: every engine turn that requests tool calls is followed at once by a
\* tool-results turn, and a tool-results turn only ever follows such a turn;
\* it holds one result per requested call, in the order of the calls, each
\* with the identity of its call and the outcome of its tool. While a call
\* is in flight, the calls before it in the response have their results and
\* the calls after it have not begun.
C30_ResultsPairCalls ==
  \A r \in Runs :
    LET m == runs[r].messages
    IN /\ \A i \in 1..Len(m) :
            /\ m[i].kind = "tool_use" => i < Len(m) /\ m[i + 1].kind = "tool_result"
            /\ m[i].kind = "tool_result" =>
                 /\ i > 1 /\ m[i - 1].kind = "tool_use"
                 /\ Len(m[i].items) = Len(m[i - 1].items)
                 /\ \A j \in 1..Len(m[i].items) :
                      /\ m[i].items[j].tool_use_id = RequestedBefore(m, i - 1) + j
                      /\ Answers(m[i].items[j], m[i - 1].items[j])
       /\ runs[r].pc = "tool" =>
            /\ runs[r].idx \in 1..Len(runs[r].blocks)
            /\ Len(runs[r].toolResults) = runs[r].idx - 1
            /\ runs[r].toolCallCount = Len(Requested(m)) + runs[r].idx
            /\ \A j \in 1..Len(runs[r].toolResults) :
                 /\ runs[r].toolResults[j].tool_use_id = Len(Requested(m)) + j
                 /\ Answers(runs[r].toolResults[j], runs[r].blocks[j])

\* the conversation holds a tool-results turn with two results, for a
\* response that asked for two tools of different kinds, the second of which
\* had to be awaited
C30_Witness ==
  \E r \in Runs :
    \E i \in 3..Len(runs[r].messages) :
      /\ runs[r].messages[i].kind = "tool_result"
      /\ Len(runs[r].messages[i].items) = 2
      /\ runs[r].messages[i - 1].items[2].name \in SearchAndPageTools
      /\ runs[r].messages[i - 1].items[1].name # runs[r].messages[i - 1].items[2].name
      /\ runs[r].messages[i].items[1].is_error # runs[r].messages[i].items[2].is_error
      /\ runs[r].messages[i].items[1].tool_use_id < runs[r].messages[i].items[2].tool_use_id

\* the entries the invocations of the given calls leave in the query log
RECURSIVE QueryLog(_)
QueryLog(calls) ==
  IF calls = <<>> THEN <<>>
  ELSE (CASE Head(calls).name = "google_search" -> <<Head(calls).query>>
          [] Head(calls).name = "discover" -> <<"[discover] " \o Head(calls).query>>
          [] OTHER -> <<>>)
       \o QueryLog(Tail(calls))

\* the calls run r has invoked so far: those of the finished tool turns, then
\* the blocks of the response in hand up to the one in flight
Invoked(r) == Requested(runs[r].messages) \o SubSeq(runs[r].blocks, 1, runs[r].idx)

\* C31: every google_search invocation appends exactly its query to the
\* query log and every discover invocation its query with the "[discover] "
\* tag, in invocation order and whether or not the search succeeds;
\* extract_page, read_page and evaluate never change the log; the persisted
\* session's searchQueries is that log.
C31_QueryLogFollowsInvocations ==
  \A r \in {1} :
    /\ runs[r].pc # "idle" => sessionQueries = QueryLog(Invoked(r))
    /\ Persisted(r) => runs[r].session[1].searchQueries = QueryLog(Invoked(r))

\* a run persisted the log of a discover that failed followed by a
\* google_search that answered
C31_Witness ==
  /\ runs[1].pc = "done"
  /\ Persisted(1)
  /\ runs[1].session[1].searchQueries = <<"[discover] sms argentina", "sms argentina">>
  /\ \E i \in 1..Len(runs[1].messages) :
       /\ runs[1].messages[i].kind = "tool_result"
       /\ runs[1].messages[i].items[1].content.detail = "Gemini search error"

\* run r made its first engine call and nothing else yet
JustStarted(r) ==
  /\ runs[r].pc = "engine"
  /\ runs[r].iterations = 1 /\ runs[r].attempt = 0

\* C32: when runs are executed one after another, each run starts with empty
\* candidate and query accumulators, and the session a run persisted holds
\* the candidates and queries of that run only, none of an earlier run.
C32_SerialRunsStartEmpty ==
  \A r \in Runs :
    /\ JustStarted(r) => sessionCandidates = <<>> /\ sessionQueries = <<>>
    /\ Persisted(r) =>
         /\ runs[r].session[1].candidates = runs[r].ownCandidates
         /\ runs[r].session[1].searchQueries = runs[r].ownQueries

\* the first run persisted a query; the run after it persisted a session
\* with its own candidate and no query
C32_Witness ==
  /\ Persisted(1) /\ runs[1].pc = "done"
  /\ runs[1].session[1].searchQueries # <<>>
  /\ Persisted(2)
  /\ runs[2].session[1].searchQueries = <<>>
  /\ runs[2].session[1].candidates = <<Candidate(EvalPass)>>

\* the notes the candidates of one session append for the service key:
\* per candidate the rejection reason, dated, and then the free-text notes
RECURSIVE NotesOfCandidates(_, _, _)
NotesOfCandidates(cands, ts, key) ==
  IF cands = <<>> THEN <<>>
  ELSE LET c == Head(cands)
       IN (IF NormalizeName(c.name) = key /\ c.rejectionReason # Undefined
             THEN <<[kind |-> "rejected", date |-> ts, text |-> c.rejectionReason]>>
             ELSE <<>>)
          \o (IF NormalizeName(c.name) = key /\ c.notes # Undefined
                THEN <<[kind |-> "note", date |-> 0, text |-> c.notes]>>
                ELSE <<>>)
          \o NotesOfCandidates(Tail(cands), ts, key)

\* every note the stored sessions appended for the service key, in append order
RECURSIVE AllNotes(_, _)
AllNotes(sessions, key) ==
  IF sessions = <<>> THEN <<>>
  ELSE NotesOfCandidates(Head(sessions).candidates, Head(sessions).timestamp, key)
       \o AllNotes(Tail(sessions), key)

\* C33: after any sequence of saveSession calls every known-service entry
\* has at most MAX_NOTES notes, and they are the MAX_NOTES most recently
\* appended ones in append order, where a candidate's rejection reason is
\* appended before its free-text notes (as long as the store still holds
\* every session saved, the notes ever appended are those of its sessions).
C33_NotesKeepLastTen ==
  Len(store.sessions) < MAX_SESSIONS =>
    \A key \in DOMAIN store.knownServices :
      LET notes == store.knownServices[key].notes
          all == AllNotes(store.sessions, key)
      IN /\ Len(notes) <= MAX_NOTES
         /\ notes = IF Len(all) <= MAX_NOTES THEN all
                    ELSE SubSeq(all, Len(all) - MAX_NOTES + 1, Len(all))

\* more than MAX_NOTES notes were appended for a service, and the oldest
\* note kept is a free-text note whose rejection reason was dropped
C33_Witness ==
  /\ "beta" \in DOMAIN store.knownServices
  /\ Len(AllNotes(store.sessions, "beta")) > MAX_NOTES
  /\ Len(store.knownServices["beta"].notes) = MAX_NOTES
  /\ store.knownServices["beta"].notes[1] = [kind |-> "note", date |-> 0, text |-> "slow support"]
  /\ store.knownServices["beta"].notes[2].kind = "rejected"

\* the candidates of a session saved under the service key, in order
Named(session, key) ==
  SelectSeq(session.candidates, LAMBDA c : NormalizeName(c.name) = key)

\* the url of the last candidate of cs that has one, else the url before
LatestUrl(cs, before) ==
  LET with == SelectSeq(cs, LAMBDA c : c.url # Undefined)
  IN IF with = <<>> THEN before ELSE with[Len(with)].url

\* C34: every saveSession call leaves each known-service entry with the
\* verdict of the last candidate of that normalized name it saved and the
\* timestamp of its session as lastChecked, with the url of the most recent
\* such candidate that had one (a candidate without url never clears it) and
\* with every fact key it had; an entry no candidate of the call names is
\* left as it was, and no entry is ever removed, also when the 50-session cap
\* evicts the sessions that created it.
C34_UpsertKeepsLatest ==
  [][LET session == store'.sessions[Len(store'.sessions)]
         old == store.knownServices
         new == store'.knownServices
     IN /\ DOMAIN old \subseteq DOMAIN new
        /\ \A key \in DOMAIN new :
             LET cs == Named(session, key)
             IN IF cs = <<>>
                  THEN key \in DOMAIN old /\ new[key] = old[key]
                  ELSE /\ new[key].verdict = cs[Len(cs)].verdict
                       /\ new[key].lastChecked = session.timestamp
                       /\ new[key].url =
                            LatestUrl(cs, IF key \in DOMAIN old THEN old[key].url ELSE Undefined)
                       /\ key \in DOMAIN old =>
                            DOMAIN old[key].facts \subseteq DOMAIN new[key].facts]_vars

\* the sessions that evaluated a service were evicted by the cap and its
\* entry is still there, with the verdict of the later candidate, which had
\* no url, and the url of the earlier one
C34_Witness ==
  /\ Len(store.sessions) = MAX_SESSIONS
  /\ \A i \in 1..Len(store.sessions) : store.sessions[i].candidates = <<>>
  /\ "acme sms" \in DOMAIN store.knownServices
  /\ store.knownServices["acme sms"].verdict = "fail"
  /\ store.knownServices["acme sms"].url = "acme.example"

\* the candidates of the evaluate calls among blocks 1..n that were answered
\* with a report, in order
RECURSIVE Reported(_, _, _)
Reported(blocks, results, n) ==
  IF n = 0 THEN <<>>
  ELSE Reported(blocks, results, n - 1)
       \o (IF blocks[n].name = "evaluate" /\ ~results[n].is_error
             THEN <<Candidate(blocks[n])>> ELSE <<>>)

\* the same over the finished tool turns of a conversation
RECURSIVE ReportedIn(_, _)
ReportedIn(messages, n) ==
  IF n = 0 THEN <<>>
  ELSE ReportedIn(messages, n - 1)
       \o (IF messages[n].kind = "tool_result"
             THEN Reported(messages[n - 1].items, messages[n].items, Len(messages[n].items))
             ELSE <<>>)

\* C35: the claim as stated: an evaluate invocation whose result is
\* error-flagged leaves the candidate accumulator unchanged: the accumulator,
\* and later the session the run assembles, hold a candidate record only for
\* the evaluate calls that returned a report.
C35_FailedEvaluationLeavesNoCandidate ==
  \A r \in {1} :
    /\ runs[r].pc # "idle" =>
         sessionCandidates =
           ReportedIn(runs[r].messages, Len(runs[r].messages))
           \o Reported(runs[r].blocks, runs[r].toolResults, Len(runs[r].toolResults))
    /\ runs[r].session # <<>> =>
         runs[r].session[1].candidates = ReportedIn(runs[r].messages, Len(runs[r].messages))

\* C36: the claim as stated: at any time at most one runResearchAgent
\* invocation is in flight per chat, and a request of a chat is accepted
\* only while no run started for that chat is still in flight.
C36_OneRunPerChat ==
  /\ [](\A c \in Chats : \A r, q \in Runs :
          runs[r].chat = c /\ runs[q].chat = c /\ InFlight(r) /\ InFlight(q) => r = q)
  /\ [][\A c \in Chats : \A r \in Runs :
          runs[r].pc = "idle" /\ runs'[r].pc = "status" /\ runs'[r].chat = c
            => \A q \in Runs : ~(runs[q].chat = c /\ InFlight(q))]_vars

\* the tool-results turn at position i follows the turn that requested its
\* calls: one result per call, in order, each the outcome of its tool
FollowsItsRequest(messages, i) ==
  /\ i > 1
  /\ messages[i - 1].kind = "tool_use"
  /\ Len(messages[i].items) = Len(messages[i - 1].items)
  /\ \A j \in 1..Len(messages[i].items) :
       /\ Answers(messages[i].items[j], messages[i - 1].items[j])
       /\ j > 1 => messages[i].items[j].tool_use_id = messages[i].items[j - 1].tool_use_id + 1

\* a conversation the engine accepts
WellFormed(messages, task) ==
  /\ messages # <<>>
  /\ messages[1] = TaskTurn(task)
  /\ \A i \in 1..Len(messages) :
       /\ messages[i].role = IF i % 2 = 1 THEN "user" ELSE "assistant"
       /\ messages[i].kind = "tool_result" => FollowsItsRequest(messages, i)
       /\ messages[i].kind = "tool_use" =>
            i < Len(messages) /\ messages[i + 1].kind = "tool_result"
  /\ messages[Len(messages)].role = "user"

\* C37: every conversation passed to the reasoning engine starts with the
\* user task, strictly alternates user and assistant turns and ends with a
\* user turn, and every tool-results turn is immediately preceded by the
\* turn that requested its calls; a compression that replaces history takes
\* a conversation of this shape to one of this shape, every tool-results turn
\* it keeps still behind its requesting turn.
C37_ConversationWellFormed ==
  \A r \in Runs :
    /\ runs[r].pc = "engine" => WellFormed(runs[r].messages, runs[r].task)
    /\ CompressCall(r).summarizer = "ok" =>
         /\ WellFormed(CompressCall(r).input, runs[r].task)
         /\ WellFormed(CompressCall(r).output, runs[r].task)

\* the engine is given a conversation that was compressed twice: the second
\* compression summarized the first summary and kept two tool exchanges
C37_Witness ==
  \E r \in Runs :
    /\ runs[r].pc = "engine"
    /\ runs[r].iterations = 10
    /\ CompressCall(r).summarizer = "ok"
    /\ CompressCall(r).input[3].kind = "summary"
    /\ runs[r].messages[3].kind = "summary"
    /\ Len(runs[r].messages) = 7
    /\ runs[r].messages[5].kind = "tool_result"
    /\ runs[r].messages[7].kind = "tool_result"

\* the conversation of run r holds a summary turn
HasSummary(messages) == \E i \in 1..Len(messages) : messages[i].kind = "summary"

\* C38: the first compression boundary of a run (iteration 4) never changes
\* the conversation: it has at most 7 turns there, its middle section is
\* below the 4-turn minimum, and compressHistory returns its input without
\* calling the summarizer; a summary replaces history at iteration 7 at the
\* earliest.
C38_FirstBoundaryIsNoOp ==
  \A r \in Runs :
    /\ runs[r].iterations = 4 /\ CompressCall(r).input # <<>> =>
         /\ Len(CompressCall(r).input) <= 7
         /\ Len(CompressCall(r).input) - 1 - KEEP_LAST_EXCHANGES * 2 < MIN_MIDDLE
         /\ CompressCall(r).summarizer = "none"
         /\ CompressCall(r).output = CompressCall(r).input
         /\ runs[r].messages = CompressCall(r).input
    /\ runs[r].pc = "compress" => runs[r].iterations >= 7
    /\ HasSummary(runs[r].messages) => runs[r].iterations >= 7

\* at iteration 7 a summary replaced the 8 middle turns of a conversation of
\* 13: the boundary at iteration 4 had left all six exchanges in place
C38_Witness ==
  \E r \in Runs :
    /\ runs[r].iterations = 7
    /\ runs[r].pc = "engine"
    /\ runs[r].compressCalls = <<4, 7>>
    /\ Len(CompressCall(r).input) = 13
    /\ runs[r].messages[3].kind = "summary"
    /\ runs[r].messages[3].n = 8

\* C39: while the summarizer has not failed in a run, the conversation
\* passed to the reasoning engine never has more than 11 turns, in any
\* iteration; once it may have failed, the bound is 1 + 2 * 9 = 19 turns.
C39_ConversationBounded ==
  \A r \in Runs :
    runs[r].pc = "engine" =>
      /\ Len(runs[r].messages) <= 19
      /\ ~runs[r].summaryFailed => Len(runs[r].messages) <= 11

\* the engine is given 11 turns at iteration 9, in a run whose summarizer
\* answered at iteration 7
C39_Witness ==
  \E r \in Runs :
    /\ runs[r].pc = "engine"
    /\ runs[r].iterations = 9
    /\ ~runs[r].summaryFailed
    /\ HasSummary(runs[r].messages)
    /\ Len(runs[r].messages) = 11

\* the summarizer failed at iterations 7 and 10 and the engine is given 19 turns
C39_FailingSummarizerReachesNineteen ==
  \E r \in Runs :
    /\ runs[r].pc = "engine"
    /\ runs[r].summaryFailed
    /\ Len(runs[r].messages) = 19

\* the saveSession call of run r returned
Saved(r) == runs[r].saveCalls > 0 /\ runs[r].error \notin {"save_TypeError", "save_EISDIR"}

\* C40: saveSession loads, modifies and rewrites the store in one step, so
\* the saves of overlapping runs never interleave: a save adds its record
\* behind the records already stored and removes none, and while fewer than
\* MAX_SESSIONS sessions are stored the store holds the session record of
\* every run whose save returned.
C40_SavesNeverInterleave ==
  /\ [](\A r \in Runs :
          Saved(r) /\ Len(store.sessions) < MAX_SESSIONS => Persisted(r))
  /\ [][store' # store /\ Len(store.sessions) < MAX_SESSIONS =>
          /\ Len(store'.sessions) = Len(store.sessions) + 1
          /\ SubSeq(store'.sessions, 1, Len(store.sessions)) = store.sessions
          /\ \E r \in Runs : /\ runs'[r].saveCalls = runs[r].saveCalls + 1
                             /\ store'.sessions[Len(store'.sessions)] = runs'[r].session[1]]_vars

\* two runs that overlapped have both completed and both records are stored:
\* run 2 started when nothing was stored and saved after run 1 did
C40_Witness ==
  /\ runs[1].pc = "done" /\ runs[2].pc = "done"
  /\ runs[2].memoryAtStart = EmptyStore
  /\ Len(store.sessions) = 2
  /\ store.sessions[1] = runs[1].session[1]
  /\ store.sessions[2] = runs[2].session[1]

==============================================================================
